---- MODULE Spec2Model ----
(***************************************************************************)
(* vite-seo-bootstrap: the project transformation pipeline.                *)
(*                                                                         *)
(*   apply-zip main  ->  cli main  ->  run  ->  generators                 *)
(*                                                                         *)
(* Texts are TLA+ strings and positions in them are 1-based; 0 stands for  *)
(* JavaScript's -1 ("not found").  A file tree is a function from          *)
(* relative paths to file contents.  A file content is a record            *)
(* [kind, val]: kind "text" with the text, or kind "json" with the value   *)
(* JSON.parse gives for it (JSON.stringify of that value writes it back).  *)
(***************************************************************************)
EXTENDS Integers, Sequences, FiniteSets, TLC

VARIABLES
  pc,          \* control point of main() in apply-zip.mjs and of run()
  zip,         \* the input archive: [ok, tree]
  args,        \* command line: [strategy, domain, build]
  tempDir,     \* TRUE while the temporary working directory is on disk
  rmCount,     \* how many times rmSync(tempDir) has run
  files,       \* the tree under the working directory (or the project)
  files0,      \* the tree as first extracted (the input of the run)
  projectRoot, \* the resolved project root, relative to the working dir
  pkg,         \* the manifest run() holds in memory
  steps,       \* the generator steps run() has executed, in order
  writes,      \* the files written so far: <<step, path>>, in order
  outZip,      \* the output archive: [written, tree]
  buildResult, \* "none", "ok" or "failed": the install/build step
  outcome,     \* "running", "ok", or the fatal condition main() ended on
  last         \* the latest application of a step: its input and result

vars == <<pc, zip, args, tempDir, rmCount, files, files0, projectRoot, pkg,
          steps, writes, outZip, buildResult, outcome, last>>

----------------------------------------------------------------------------
(* Strings                                                                 *)

Min(S) == CHOOSE x \in S : \A y \in S : x <= y

Ch(s, i) == SubSeq(s, i, i)

\* s.slice(i - 1): the text from position i to the end
From(s, i) == SubSeq(s, i, Len(s))

StartsWithAt(s, t, i) ==
  /\ i >= 1
  /\ i + Len(t) - 1 <= Len(s)
  /\ SubSeq(s, i, i + Len(t) - 1) = t

\* s.indexOf(t, from - 1) + 1
IndexOfFrom(s, t, from) ==
  LET hits == {i \in from..(Len(s) - Len(t) + 1) : StartsWithAt(s, t, i)}
  IN IF hits = {} THEN 0 ELSE Min(hits)

IndexOf(s, t) == IndexOfFrom(s, t, 1)

\* s.includes(t)
Includes(s, t) == IndexOf(s, t) # 0

\* s.replace(t, r) with a string pattern: the first occurrence only
ReplaceFirst(s, t, r) ==
  LET i == IndexOf(s, t)
  IN IF i = 0 THEN s ELSE SubSeq(s, 1, i - 1) \o r \o From(s, i + Len(t))

\* s.replace(/\/$/, '')
StripTrailingSlash(s) ==
  IF Len(s) > 0 /\ Ch(s, Len(s)) = "/" THEN SubSeq(s, 1, Len(s) - 1) ELSE s

UpperChars == "ABCDEFGHIJKLMNOPQRSTUVWXYZ"
LowerChars == "abcdefghijklmnopqrstuvwxyz"

CharsOf(s) == {Ch(s, i) : i \in 1..Len(s)}

\* \d
Digits == {"0", "1", "2", "3", "4", "5", "6", "7", "8", "9"}

\* \w
WordChars == CharsOf(UpperChars) \cup CharsOf(LowerChars) \cup Digits \cup {"_"}

\* \s (the white space a TLA+ string can hold)
IsSpace(c) == c \in {" ", "\t", "\n", "\r", "\f"}

\* the lower-case letter of every upper-case letter
Lowered ==
  [c \in CharsOf(UpperChars) |-> Ch(LowerChars, IndexOf(UpperChars, c))]

LowerChar(c) == IF c \in DOMAIN Lowered THEN Lowered[c] ELSE c

RECURSIVE ToLowerCase(_)
ToLowerCase(s) ==
  IF s = "" THEN "" ELSE LowerChar(Ch(s, 1)) \o ToLowerCase(From(s, 2))

\* the first position >= i of s whose character is not white space, or
\* Len(s) + 1
SkipSpace(s, i) ==
  LET stops == {j \in i..Len(s) : ~IsSpace(Ch(s, j))}
  IN IF stops = {} THEN Len(s) + 1 ELSE Min(stops)

\* the first position >= i of s whose character is not a digit, or Len(s) + 1
SkipDigits(s, i) ==
  LET stops == {j \in i..Len(s) : Ch(s, j) \notin Digits}
  IN IF stops = {} THEN Len(s) + 1 ELSE Min(stops)

----------------------------------------------------------------------------
(* Files                                                                   *)

Text(t) == [kind |-> "text", val |-> t]
Json(v) == [kind |-> "json", val |-> v]

NoFiles == [p \in {} |-> Text("")]

\* path.join(root, rel), relative to the working directory
Join(root, rel) == IF root = "" THEN rel ELSE root \o "/" \o rel

\* fs.access(path) succeeds, fs.existsSync(path)
Exists(f, path) == path \in DOMAIN f

\* fs.writeFile(path, content)
WriteFile(f, path, content) == (path :> content) @@ f

----------------------------------------------------------------------------
(* The manifest (package.json): a function from its top-level keys to      *)
(* their values; dependencies, devDependencies and scripts are mappings    *)
(* from names to strings.                                                  *)

NoMapping == [n \in {} |-> ""]

\* JavaScript's truthiness of m[k] for a mapping of strings: the key is
\* there and its value is not the empty string
Truthy(m, k) == k \in DOMAIN m /\ m[k] # ""

\* pkg[field] = pkg[field] || {}
EnsureMapping(p, field) ==
  IF field \in DOMAIN p THEN p ELSE (field :> NoMapping) @@ p

\* pkg[field][k] = v
SetIn(p, field, k, v) == (field :> ((k :> v) @@ p[field])) @@ p

\* Object.entries(SEO_DEPENDENCIES)
SEO_DEPENDENCIES ==
  << <<"react-helmet-async", "^2.0.0">>,
     <<"vite-plugin-html", "^3.2.1">>,
     <<"vite-plugin-sitemap", "^0.7.1">>,
     <<"vite-ssg", "^0.24.0">> >>

\* Object.entries(SEO_DEV_DEPENDENCIES)
SEO_DEV_DEPENDENCIES ==
  << <<"vite-bundle-visualizer", "^1.2.1">>,
     <<"@vitejs/plugin-react", "^4.2.1">>,
     <<"vite", "^5.0.0">> >>

\* Object.entries(preactDeps)
preactDeps ==
  << <<"preact", "^10.17.1">>,
     <<"@preact/preset-vite", "^2.4.0">>,
     <<"preact-iso", "^3.1.0">>,
     <<"preact-render-to-string", "^5.2.6">> >>

\* a merge that sets the entry whatever the manifest holds
AddAlways(r, target, other, dep, version) ==
  [pkg |-> SetIn(r.pkg, target, dep, version), updated |-> TRUE]

\* A merge in progress: r = [pkg, updated].
\* if (!pkg[target][dep] && !pkg[other][dep]) { pkg[target][dep] = version;
\*                                               updated = true; }
AddIfAbsent(r, target, other, dep, version) ==
  IF ~Truthy(r.pkg[target], dep) /\ ~Truthy(r.pkg[other], dep)
  THEN [pkg |-> SetIn(r.pkg, target, dep, version), updated |-> TRUE]
  ELSE r

\* for (const [dep, version] of entries) AddIfAbsent
RECURSIVE AddAll(_, _, _, _, _)
AddAll(r, target, other, entries, i) ==
  IF i > Len(entries) THEN r
  ELSE AddAll(AddIfAbsent(r, target, other, entries[i][1], entries[i][2]),
              target, other, entries, i + 1)

\* updatePackageJson, up to its decision to write
UpdatePackageJsonMerge(p0) ==
  LET p1 == EnsureMapping(EnsureMapping(p0, "dependencies"), "devDependencies")
      r1 == AddAll([pkg |-> p1, updated |-> FALSE],
                   "dependencies", "devDependencies", SEO_DEPENDENCIES, 1)
      r2 == AddAll(r1, "devDependencies", "dependencies",
                   SEO_DEV_DEPENDENCIES, 1)
      p3 == EnsureMapping(r2.pkg, "scripts")
  IN IF ~Truthy(p3.scripts, "analyze")
     THEN [pkg |-> SetIn(p3, "scripts", "analyze", "npx vite-bundle-visualizer"),
           updated |-> TRUE]
     ELSE [pkg |-> p3, updated |-> r2.updated]

\* every occurrence of t in s replaced by r, left to right
RECURSIVE ReplaceEvery(_, _, _)
ReplaceEvery(s, t, r) ==
  LET i == IndexOf(s, t)
  IN IF i = 0 THEN s
     ELSE SubSeq(s, 1, i - 1) \o r \o ReplaceEvery(From(s, i + Len(t)), t, r)

\* a rewrite that substitutes every occurrence of the marker
RewriteScriptEvery(r, name) ==
  IF /\ Truthy(r.pkg.scripts, name)
     /\ Includes(r.pkg.scripts[name], "vite")
     /\ ~Includes(r.pkg.scripts[name], "vite-react-ssg")
  THEN [pkg |-> SetIn(r.pkg, "scripts", name,
                      ReplaceEvery(r.pkg.scripts[name], "vite", "vite-react-ssg")),
        updated |-> TRUE]
  ELSE r

\* const s = pkg.scripts[name];
\* if (s && s.includes('vite') && !s.includes('vite-react-ssg'))
\*   { pkg.scripts[name] = s.replace('vite', 'vite-react-ssg'); updatedPkg = true; }
RewriteScript(r, name) ==
  IF /\ Truthy(r.pkg.scripts, name)
     /\ Includes(r.pkg.scripts[name], "vite")
     /\ ~Includes(r.pkg.scripts[name], "vite-react-ssg")
  THEN [pkg |-> SetIn(r.pkg, "scripts", name,
                      ReplaceFirst(r.pkg.scripts[name], "vite", "vite-react-ssg")),
        updated |-> TRUE]
  ELSE r

\* if (!pkg.scripts['dev']) { pkg.scripts['dev'] = 'vite-react-ssg dev'; ... }
DefaultDevScript(r) ==
  IF ~Truthy(r.pkg.scripts, "dev")
  THEN [pkg |-> SetIn(r.pkg, "scripts", "dev", "vite-react-ssg dev"),
        updated |-> TRUE]
  ELSE r

\* if (pkg.type !== 'module') { pkg.type = 'module'; updatedPkg = true; }
EnsureModuleType(r) ==
  IF "type" \in DOMAIN r.pkg /\ r.pkg.type = "module"
  THEN r
  ELSE [pkg |-> ("type" :> "module") @@ r.pkg, updated |-> TRUE]

\* applyReactSsgWiring, the manifest part, up to its decision to write
WiringMerge(p0) ==
  LET p1 == EnsureMapping(EnsureMapping(EnsureMapping(p0, "dependencies"),
                                        "devDependencies"), "scripts")
      r1 == AddIfAbsent([pkg |-> p1, updated |-> FALSE],
                        "dependencies", "devDependencies",
                        "react-router-dom", "^6.19.0")
      r2 == AddIfAbsent(r1, "devDependencies", "dependencies",
                        "vite-react-ssg", "^0.8.9")
  IN EnsureModuleType(DefaultDevScript(
       RewriteScript(RewriteScript(r2, "build"), "dev")))

\* applyPreactPrerender, the manifest part, up to its decision to write
PreactMerge(p0) ==
  LET p1 == EnsureMapping(EnsureMapping(p0, "dependencies"), "devDependencies")
  IN AddAll([pkg |-> p1, updated |-> FALSE],
            "dependencies", "devDependencies", preactDeps, 1)

\* A run's effect on the disk so far: st = [files, writes].
\* await fs.writeFile(path, content), done by step
Write(st, step, path, content) ==
  [files  |-> WriteFile(st.files, path, content),
   writes |-> Append(st.writes, <<step, path>>)]

\* the manifest written back whether or not a merge changed it
PersistAlways(st, step, root, r) ==
  Write(st, step, Join(root, "package.json"), Json(r.pkg))

\* if (updated) await fs.writeFile(pkgPath, JSON.stringify(pkg, null, 2))
PersistManifest(st, step, root, r) ==
  IF r.updated
  THEN Write(st, step, Join(root, "package.json"), Json(r.pkg))
  ELSE st

\* /^\^?1\.\d+\.\d+/.test(v)
VersionIs1x(v) ==
  LET i == IF StartsWithAt(v, "^", 1) THEN 2 ELSE 1
      e == SkipDigits(v, i + 2)
  IN /\ StartsWithAt(v, "1.", i)
     /\ e > i + 2
     /\ StartsWithAt(v, ".", e)
     /\ e + 1 <= Len(v)
     /\ Ch(v, e + 1) \in Digits

\* fixVersion(deps) of apply-zip.mjs and optimize.mjs, on r = [pkg, updated]
\* (updated is the code's "patched")
FixVersion(r, field) ==
  IF /\ field \in DOMAIN r.pkg
     /\ Truthy(r.pkg[field], "vite-bundle-visualizer")
     /\ ~VersionIs1x(r.pkg[field]["vite-bundle-visualizer"])
  THEN [pkg |-> SetIn(r.pkg, field, "vite-bundle-visualizer", "^1.2.1"),
        updated |-> TRUE]
  ELSE r

\* the patch of package.json after the run
PatchManifest(p0) ==
  FixVersion(FixVersion([pkg |-> p0, updated |-> FALSE], "dependencies"),
             "devDependencies")

----------------------------------------------------------------------------
(* The build configuration (vite.config.ts / vite.config.js)               *)

\* updateViteConfig's contents, with ${baseUrl} interpolated
ViteConfigTemplate(baseUrl) ==
     "import { defineConfig } from 'vite';\n"
  \o "import react from '@vitejs/plugin-react';\n"
  \o "import { ViteSitemap } from 'vite-plugin-sitemap';\n"
  \o "import { createHtmlPlugin } from 'vite-plugin-html';\n"
  \o "import { viteSSG } from 'vite-ssg/serialized-data';\n"
  \o "\n"
  \o "// Define your application routes here. This array is used by vite-ssg to\n"
  \o "// prerender each route. Add entries like { path: '/about', name: 'About' }.\n"
  \o "const routes = [\n"
  \o "  { path: '/', name: 'Home' }\n"
  \o "];\n"
  \o "\n"
  \o "export default defineConfig({\n"
  \o "  plugins: [\n"
  \o "    react(),\n"
  \o "    viteSSG({\n"
  \o "      includedRoutes: () => routes\n"
  \o "    }),\n"
  \o "    ViteSitemap({\n"
  \o "      baseUrl: '" \o baseUrl \o "',\n"
  \o "      routes,\n"
  \o "      generateRobotsTxt: true\n"
  \o "    }),\n"
  \o "    createHtmlPlugin({\n"
  \o "      minify: true,\n"
  \o "      inject: {\n"
  \o "        data: {\n"
  \o "          title: 'Default Title',\n"
  \o "          description: 'Default Description'\n"
  \o "        }\n"
  \o "      }\n"
  \o "    })\n"
  \o "  ],\n"
  \o "  build: {\n"
  \o "    rollupOptions: {\n"
  \o "      output: {\n"
  \o "        manualChunks: {\n"
  \o "          react: ['react', 'react-dom', 'react-router-dom']\n"
  \o "        }\n"
  \o "      }\n"
  \o "    }\n"
  \o "  }\n"
  \o "});\n"

\* try { await fs.access(tsConfig); configPath = tsConfig }
\* catch { configPath = jsConfig }
ConfigPath(f, root) ==
  IF Exists(f, Join(root, "vite.config.ts"))
  THEN Join(root, "vite.config.ts")
  ELSE Join(root, "vite.config.js")

\* ^ under the m flag: the start of the text or just after a line terminator
IsLineStart(s, i) == i = 1 \/ Ch(s, i - 1) \in {"\n", "\r"}

\* \bw\b somewhere in s[lo..hi]
HasWord(s, w, lo, hi) ==
  \E k \in lo..(hi - Len(w) + 1) :
    /\ StartsWithAt(s, w, k)
    /\ (k = 1 \/ Ch(s, k - 1) \notin WordChars)
    /\ (k + Len(w) > Len(s) \/ Ch(s, k + Len(w)) \notin WordChars)

\* /^import\s+\{[^}]*\bviteSSG\b[^}]*}\s+from[^\n]*\n?/m matched at position
\* i: the position after the match, or 0 when it does not match there
ImportMatchEnd(s, i) ==
  LET a  == i + 6
      b  == SkipSpace(s, a)
      c  == IndexOfFrom(s, "}", b + 1)
      d  == SkipSpace(s, c + 1)
      nl == IndexOfFrom(s, "\n", d + 4)
  IN IF /\ IsLineStart(s, i)
        /\ StartsWithAt(s, "import", i)
        /\ b > a
        /\ StartsWithAt(s, "{", b)
        /\ c # 0
        /\ HasWord(s, "viteSSG", b + 1, c - 1)
        /\ d > c + 1
        /\ StartsWithAt(s, "from", d)
     THEN IF nl = 0 THEN Len(s) + 1 ELSE nl + 1
     ELSE 0

\* config.replace(/^import\s+\{[^}]*\bviteSSG\b[^}]*}\s+from[^\n]*\n?/gm, '')
\* from position p on
RECURSIVE RemoveSsgImports(_, _)
RemoveSsgImports(s, p) ==
  LET hits == {i \in p..Len(s) : ImportMatchEnd(s, i) # 0}
  IN IF hits = {} THEN From(s, p)
     ELSE SubSeq(s, p, Min(hits) - 1)
            \o RemoveSsgImports(s, ImportMatchEnd(s, Min(hits)))

\* a scan that stops at the first closing parenthesis, whatever the depth
RECURSIVE ScanCallShallow(_, _, _)
ScanCallShallow(s, i, depth) ==
  IF i > Len(s) THEN 0
  ELSE IF Ch(s, i) = ")" THEN i + 1
  ELSE ScanCallShallow(s, i + 1, depth)

\* the loop "for (let i = start; ...)" from position i with the depth so
\* far: the code's end (the position after the parenthesis that brings the
\* depth back to 0), or 0 for the code's end = -1
RECURSIVE ScanCall(_, _, _)
ScanCall(s, i, depth) ==
  IF i > Len(s) THEN 0
  ELSE IF Ch(s, i) = "(" THEN ScanCall(s, i + 1, depth + 1)
  ELSE IF Ch(s, i) = ")"
       THEN IF depth - 1 = 0 THEN i + 1 ELSE ScanCall(s, i + 1, depth - 1)
  ELSE ScanCall(s, i + 1, depth)

\* while (end < config.length && /[\s,]/.test(config[end])) end++
SkipSpaceComma(s, i) ==
  LET stops == {j \in i..Len(s) : ~(IsSpace(Ch(s, j)) \/ Ch(s, j) = ",")}
  IN IF stops = {} THEN Len(s) + 1 ELSE Min(stops)

\* the removal of the viteSSG(...) call
RemoveCall(s) ==
  LET start == IndexOf(s, "viteSSG(")
      end   == IF start = 0 THEN 0 ELSE ScanCall(s, start, 0)
  IN IF start # 0 /\ end # 0
     THEN SubSeq(s, 1, start - 1) \o From(s, SkipSpaceComma(s, end))
     ELSE s

\* /,\s*]/ matched at position i: the position of its "]", or 0
DanglingEnd(s, i) ==
  IF Ch(s, i) = "," /\ StartsWithAt(s, "]", SkipSpace(s, i + 1))
  THEN SkipSpace(s, i + 1)
  ELSE 0

\* config.replace(/,\s*]/g, ']') from position p on
RECURSIVE CollapseDangling(_, _)
CollapseDangling(s, p) ==
  LET hits == {i \in p..Len(s) : DanglingEnd(s, i) # 0}
  IN IF hits = {} THEN From(s, p)
     ELSE SubSeq(s, p, Min(hits) - 1) \o "]"
            \o CollapseDangling(s, DanglingEnd(s, Min(hits)) + 1)

\* what applyReactSsgWiring writes back for a configuration text it read
CleanViteConfig(s) ==
  CollapseDangling(RemoveCall(RemoveSsgImports(s, 1)), 1)

----------------------------------------------------------------------------
(* index.html                                                              *)

Max(S) == CHOOSE x \in S : \A y \in S : x >= y

\* t at position i of s, letter case ignored (the i flag)
StartsWithAtCI(s, t, i) ==
  /\ i >= 1
  /\ i + Len(t) - 1 <= Len(s)
  /\ ToLowerCase(SubSeq(s, i, i + Len(t) - 1)) = ToLowerCase(t)

\* the first position >= i of s holding ' or ", or 0
NextQuote(s, i) ==
  LET qs == {j \in i..Len(s) : Ch(s, j) \in {"'", "\""}}
  IN IF qs = {} THEN 0 ELSE Min(qs)

\* no ">" in s[lo..hi]
NoGt(s, lo, hi) == \A j \in lo..hi : Ch(s, j) # ">"

\* \/?src\/main[^"']*" at position i: the position of the closing ", or 0
MainSrcEnd(s, i, ci) ==
  LET at(t, j) == IF ci THEN StartsWithAtCI(s, t, j) ELSE StartsWithAt(s, t, j)
      m == IF at("/src/main", i) THEN i + 9
           ELSE IF at("src/main", i) THEN i + 8 ELSE 0
      q == IF m = 0 THEN 0 ELSE NextQuote(s, m)
  IN IF q # 0 /\ Ch(s, q) = "\"" THEN q ELSE 0

\* /<script\s+[^>]*src="\/?src\/(main[^"']*)"[^>]*><\/script>/ starting at
\* st: the positions k of src=" it can use
ScriptSrcAt(s, st) ==
  IF StartsWithAt(s, "<script", st) /\ st + 7 <= Len(s) /\ IsSpace(Ch(s, st + 7))
  THEN {k \in (st + 8)..Len(s) :
          /\ NoGt(s, st + 8, k - 1)
          /\ StartsWithAt(s, "src=\"", k)
          /\ MainSrcEnd(s, k + 5, FALSE) # 0
          /\ StartsWithAt(s, "></script>",
                          IndexOfFrom(s, ">", MainSrcEnd(s, k + 5, FALSE) + 1))}
  ELSE {}

\* indexHtml.replace(scriptRegex,
\*                   '<script type="module" src="/src/main.ssg.jsx"></script>')
RewriteEntryScript(s) ==
  LET starts == {st \in 1..Len(s) : ScriptSrcAt(s, st) # {}}
  IN IF starts = {} THEN s
     ELSE LET st == Min(starts)
              k  == Max(ScriptSrcAt(s, st))
              g  == IndexOfFrom(s, ">", MainSrcEnd(s, k + 5, FALSE) + 1)
          IN SubSeq(s, 1, st - 1)
               \o "<script type=\"module\" src=\"/src/main.ssg.jsx\"></script>"
               \o From(s, g + 10)

\* the end (exclusive) of an id value that starts at position v: one of
\* root, app, main (letter case ignored) when std, else [^"']+ ; 0 when the
\* value or the quote closing it is not there
IdValueEnd(s, v, std) ==
  IF std
  THEN LET ws == {w \in {"root", "app", "main"} :
                    /\ StartsWithAtCI(s, w, v)
                    /\ v + Len(w) <= Len(s)
                    /\ Ch(s, v + Len(w)) \in {"'", "\""}}
       IN IF ws = {} THEN 0 ELSE v + Len(CHOOSE w \in ws : TRUE)
  ELSE LET q == NextQuote(s, v) IN IF q > v THEN q ELSE 0

\* /<div[^>]*id=["'](...)["'][^>]*>/i starting at st: the positions k of
\* id= it can use
DivIdAt(s, st, std) ==
  IF StartsWithAtCI(s, "<div", st)
  THEN {k \in (st + 4)..Len(s) :
          /\ NoGt(s, st + 4, k - 1)
          /\ StartsWithAtCI(s, "id=", k)
          /\ k + 3 <= Len(s)
          /\ Ch(s, k + 3) \in {"'", "\""}
          /\ IdValueEnd(s, k + 4, std) # 0
          /\ IndexOfFrom(s, ">", IdValueEnd(s, k + 4, std) + 1) # 0}
  ELSE {}

\* the first group of the leftmost match, or "" when nothing matches
DivIdMatch(s, std) ==
  LET starts == {st \in 1..Len(s) : DivIdAt(s, st, std) # {}}
  IN IF starts = {} THEN ""
     ELSE LET k == Max(DivIdAt(s, Min(starts), std))
          IN SubSeq(s, k + 4, IdValueEnd(s, k + 4, std) - 1)

\* the detection of rootId from the text of index.html
DetectRootId(s) ==
  LET idMatch == DivIdMatch(s, TRUE)
      anyIdMatch == DivIdMatch(s, FALSE)
  IN IF idMatch # "" THEN idMatch
     ELSE IF anyIdMatch # "" THEN anyIdMatch
     ELSE "root"

\* /<script([^>]*?)src="\/?src\/main[^"']*"/i starting at st: the positions
\* k of src=" it can use
PrerenderSrcAt(s, st) ==
  IF StartsWithAtCI(s, "<script", st)
  THEN {k \in (st + 7)..Len(s) :
          /\ NoGt(s, st + 7, k - 1)
          /\ StartsWithAtCI(s, "src=\"", k)
          /\ MainSrcEnd(s, k + 5, TRUE) # 0}
  ELSE {}

\* html.replace(/<script([^>]*?)src="\/?src\/main[^"']*"/i,
\*              '<script prerender$1src="/src/main.tsx"')
MarkPrerender(s) ==
  LET starts == {st \in 1..Len(s) : PrerenderSrcAt(s, st) # {}}
  IN IF starts = {} THEN s
     ELSE LET st == Min(starts)
              k  == Min(PrerenderSrcAt(s, st))
          IN SubSeq(s, 1, st - 1)
               \o "<script prerender" \o SubSeq(s, st + 7, k - 1)
               \o "src=\"/src/main.tsx\""
               \o From(s, MainSrcEnd(s, k + 5, TRUE) + 1)

----------------------------------------------------------------------------
(* applyPreactPrerender: the rewriting of the build configuration          *)

\* /import\s+react\s+from\s+['"]@vitejs\/plugin-react[^'"]*['"];?\n/ at
\* position i: the position after the match, or 0
ReactImportEnd(s, i) ==
  LET a == SkipSpace(s, i + 6)
      b == SkipSpace(s, a + 5)
      c == SkipSpace(s, b + 4)
      q == NextQuote(s, c + 21)
      e == IF StartsWithAt(s, ";", q + 1) THEN q + 2 ELSE q + 1
  IN IF /\ StartsWithAt(s, "import", i)
        /\ a > i + 6
        /\ StartsWithAt(s, "react", a)
        /\ b > a + 5
        /\ StartsWithAt(s, "from", b)
        /\ c > b + 4
        /\ Ch(s, c) \in {"'", "\""}
        /\ StartsWithAt(s, "@vitejs/plugin-react", c + 1)
        /\ q # 0
        /\ StartsWithAt(s, "\n", e)
     THEN e + 1
     ELSE 0

\* if (!configContent.includes("'@preact/preset-vite'"))
\*   configContent = configContent.replace(<the import of react>,
\*                                 "import preact from '@preact/preset-vite';\n")
EnsurePreactImport(s) ==
  LET hits == {i \in 1..Len(s) : ReactImportEnd(s, i) # 0}
  IN IF Includes(s, "'@preact/preset-vite'") \/ hits = {} THEN s
     ELSE SubSeq(s, 1, Min(hits) - 1)
            \o "import preact from '@preact/preset-vite';\n"
            \o From(s, ReactImportEnd(s, Min(hits)))

\* configContent.replace(/react\(([^)]*)\)/,
\*                       "preact({ prerender: { enabled: true } })")
ReplaceReactCall(s) ==
  LET i == IndexOf(s, "react(")
      c == IF i = 0 THEN 0 ELSE IndexOfFrom(s, ")", i + 6)
  IN IF i = 0 \/ c = 0 THEN s
     ELSE SubSeq(s, 1, i - 1) \o "preact({ prerender: { enabled: true } })"
            \o From(s, c + 1)

\* /import\s+react[^;]+;\n?/ at position i: the position after the match,
\* or 0
ReactImportLineEnd(s, i) ==
  LET a  == SkipSpace(s, i + 6)
      sc == IndexOfFrom(s, ";", a + 5)
  IN IF /\ StartsWithAt(s, "import", i)
        /\ a > i + 6
        /\ StartsWithAt(s, "react", a)
        /\ sc > a + 5
     THEN IF StartsWithAt(s, "\n", sc + 1) THEN sc + 2 ELSE sc + 1
     ELSE 0

\* configContent.replace(/import\s+react[^;]+;\n?/g, '') from position p on
RECURSIVE RemoveReactImports(_, _)
RemoveReactImports(s, p) ==
  LET hits == {i \in p..Len(s) : ReactImportLineEnd(s, i) # 0}
  IN IF hits = {} THEN From(s, p)
     ELSE SubSeq(s, p, Min(hits) - 1)
            \o RemoveReactImports(s, ReactImportLineEnd(s, Min(hits)))

\* what applyPreactPrerender writes back for a configuration text it read
PreactViteConfig(s) ==
  RemoveReactImports(ReplaceReactCall(EnsurePreactImport(s)), 1)

----------------------------------------------------------------------------
(* analyzeProject: route detection                                         *)

\* the names fs.readdir(dir) lists: the first path segment below dir of
\* every file of the tree under dir
ReadDir(f, dir) ==
  LET pre == IF dir = "" THEN "" ELSE dir \o "/"
  IN {LET rest  == From(p, Len(pre) + 1)
          slash == IndexOf(rest, "/")
      IN IF slash = 0 THEN rest ELSE SubSeq(rest, 1, slash - 1) :
        p \in {q \in DOMAIN f : StartsWithAt(q, pre, 1) /\ Len(q) > Len(pre)}}

\* fs.statSync(path).isDirectory()
IsDirectory(f, path) == \E q \in DOMAIN f : StartsWithAt(q, path \o "/", 1)

\* s.endsWith(t)
EndsWith(s, t) == StartsWithAt(s, t, Len(s) - Len(t) + 1)

\* /\.(jsx?|tsx?)$/.test(file)
IsComponentFile(file) ==
  \E ext \in {".js", ".jsx", ".ts", ".tsx"} : EndsWith(file, ext)

\* path.parse(file).name
StemOf(file) ==
  LET dots == {i \in 2..Len(file) : Ch(file, i) = "."}
  IN IF dots = {} THEN file ELSE SubSeq(file, 1, Max(dots) - 1)

\* the route of a file with the case of its name kept
RouteOfFileCased(file) ==
  IF StemOf(file) \in {"index", "home"} THEN "/" ELSE "/" \o StemOf(file)

\* the route of a file of a pages directory
RouteOfFile(file) ==
  IF ToLowerCase(StemOf(file)) \in {"index", "home"}
  THEN "/"
  ELSE "/" \o ToLowerCase(StemOf(file))

\* the routes of the directory scan
PageRoutes(f, root) ==
  {RouteOfFile(file) :
     file \in {n \in ReadDir(f, Join(root, "src/pages"))
                      \cup ReadDir(f, Join(root, "src/views")) :
                 IsComponentFile(n)}}

\* /path=['"]\/?([^'"]+)['"]/ at position i: [from, to] with the group at
\* s[from..to - 1] and the closing quote at to; to = 0 when it does not match
PathAttrAt(s, i) ==
  LET v  == i + 6
      q1 == NextQuote(s, v + 1)
      q0 == NextQuote(s, v)
  IN IF ~(StartsWithAt(s, "path=", i) /\ v <= Len(s)
            /\ Ch(s, i + 5) \in {"'", "\""})
     THEN [from |-> 0, to |-> 0]
     ELSE IF Ch(s, v) = "/" /\ q1 > v + 1
          THEN [from |-> v + 1, to |-> q1]
          ELSE IF q0 > v THEN [from |-> v, to |-> q0]
               ELSE [from |-> 0, to |-> 0]

\* the loop without the test for wildcards and parameters
RECURSIVE PathRoutesUnfiltered(_, _)
PathRoutesUnfiltered(s, p) ==
  LET hits == {i \in p..Len(s) : PathAttrAt(s, i).to # 0}
  IN IF hits = {} THEN {}
     ELSE LET m         == PathAttrAt(s, Min(hits))
              routePath == SubSeq(s, m.from, m.to - 1)
              stripped  == IF StartsWithAt(routePath, "/", 1)
                           THEN From(routePath, 2) ELSE routePath
          IN {"/" \o stripped} \cup PathRoutesUnfiltered(s, m.to + 1)

\* the loop "while ((match = pathRegex.exec(content)) !== null)" from
\* position p on: the routes it adds
RECURSIVE PathRoutes(_, _)
PathRoutes(s, p) ==
  LET hits == {i \in p..Len(s) : PathAttrAt(s, i).to # 0}
  IN IF hits = {} THEN {}
     ELSE LET m         == PathAttrAt(s, Min(hits))
              routePath == SubSeq(s, m.from, m.to - 1)
              stripped  == IF StartsWithAt(routePath, "/", 1)
                           THEN From(routePath, 2) ELSE routePath
          IN (IF ~Includes(routePath, "*") /\ ~Includes(routePath, ":")
              THEN {"/" \o stripped} ELSE {})
               \cup PathRoutes(s, m.to + 1)

searchFiles ==
  {"src/App.tsx", "src/App.jsx", "src/main.tsx", "src/main.jsx",
   "src/routes.tsx", "src/routes.jsx"}

\* the routes of the textual scan
EntryRoutes(f, root) ==
  UNION {PathRoutes(f[Join(root, rel)].val, 1) :
           rel \in {r \in searchFiles : /\ Exists(f, Join(root, r))
                                        /\ f[Join(root, r)].kind = "text"}}

\* the set of routes analyzeProject returns for the project at root
DetectedRoutes(f, root) ==
  {"/"} \cup PageRoutes(f, root) \cup EntryRoutes(f, root)

\* the characters a route of the inputs can hold, in the order of their
\* UTF-16 code units
CodeOrder ==
  " !#$%&()+,-./0123456789:;<=>?@ABCDEFGHIJKLMNOPQRSTUVWXYZ[]^_abcdefghijklmnopqrstuvwxyz{|}~"

\* the place of a character in that order
CodeOf == [c \in CharsOf(CodeOrder) |-> IndexOf(CodeOrder, c)]

\* a < b as Array.prototype.sort() compares strings without a comparator:
\* by code units, a proper prefix first
RECURSIVE Before(_, _)
Before(a, b) ==
  IF b = "" THEN FALSE
  ELSE IF a = "" THEN TRUE
  ELSE IF Ch(a, 1) # Ch(b, 1) THEN CodeOf[Ch(a, 1)] < CodeOf[Ch(b, 1)]
  ELSE Before(From(a, 2), From(b, 2))

\* the routes in descending order
RECURSIVE Descending(_)
Descending(S) ==
  IF S = {} THEN <<>>
  ELSE LET m == CHOOSE x \in S : \A y \in S : x = y \/ Before(y, x)
       IN <<m>> \o Descending(S \ {m})

\* Array.from(routes).sort()
RECURSIVE SortedRoutes(_)
SortedRoutes(S) ==
  IF S = {} THEN <<>>
  ELSE LET m == CHOOSE x \in S : \A y \in S : x = y \/ Before(x, y)
       IN <<m>> \o SortedRoutes(S \ {m})

\* what analyzeProject returns for the project at root
AnalyzeProject(f, root) ==
  [routes        |-> SortedRoutes(DetectedRoutes(f, root)),
   hasComponents |-> \/ Exists(f, Join(root, "src/components"))
                     \/ IsDirectory(f, Join(root, "src/components"))]

----------------------------------------------------------------------------
(* The files the generators emit.  Constant template text that no step     *)
(* reads back is cut to its first line; every interpolation is kept.       *)

\* ensureSeoComponent's contents
SeoComponentText == "import { Helmet } from 'react-helmet-async';\n"

\* ensureSitemapHelper's contents
SitemapText(domain) ==
     "export const BASE_URL = '" \o domain \o "';\n"
  \o "export async function dynamicRoutes(): Promise<string[]> {\n"
  \o "  return [];\n"
  \o "}\n"
  \o "export const excludeRoutes: string[] = ['/admin', '/private'];\n"

\* ensureRobotsTxt's contents
RobotsText(domain) ==
     "User-agent: *\nAllow: /\n\nSitemap: " \o StripTrailingSlash(domain)
  \o "/sitemap.xml\n\nUser-agent: Googlebot\nDisallow: /private\n"

\* writeSeoGuide's guide
GuideText(projectName, domain) ==
     "# SEO Optimisation for " \o projectName \o "\n"
  \o "               title=\"Home - " \o projectName \o "\"\n"
  \o "               canonical=\"" \o StripTrailingSlash(domain) \o "/\"\n"
  \o "                 name: \"" \o projectName \o "\",\n"
  \o "                 url: \"" \o StripTrailingSlash(domain) \o "/\"\n"

\* pkg.name || 'Your Vite App'
ProjectName(p) == IF Truthy(p, "name") THEN p.name ELSE "Your Vite App"

\* ensureDotFiles' envContents and gitignore
EnvText(domain) ==
  "# Base URL for your site\nVITE_BASE_URL=" \o StripTrailingSlash(domain)

GitignoreText ==
     "# dependencies\nnode_modules\n\n# build output\ndist\n\n"
  \o "# environment files\n.env\n\n# system files\n.DS_Store\n"

\* detectedRoutes.map(r => ...).join('\n'), from entry i on
RECURSIVE RoutesArrayContent(_, _)
RoutesArrayContent(detectedRoutes, i) ==
  IF i > Len(detectedRoutes) THEN ""
  ELSE "  {\n    path: '" \o detectedRoutes[i] \o "',\n    element: <App />,\n  },"
         \o (IF i < Len(detectedRoutes) THEN "\n" ELSE "")
         \o RoutesArrayContent(detectedRoutes, i + 1)

\* routesContent of src/routes.jsx
RoutesContent(detectedRoutes) ==
     "import React from 'react';\n"
  \o "import App from './App';\n"
  \o "\n"
  \o "// Minimal route definition for vite-react-ssg.\n"
  \o "const routes = [\n"
  \o RoutesArrayContent(detectedRoutes, 1) \o "\n"
  \o "];\n"
  \o "\n"
  \o "export default routes;\n"

\* entryContent of src/main.ssg.jsx (the polyfill block left out)
EntryContent(rootId) ==
     "import { ViteReactSSG } from 'vite-react-ssg';\n"
  \o "import routes from './routes.jsx';\n"
  \o "\n"
  \o "// Export createRoot for vite-react-ssg to bootstrap the app.\n"
  \o "export const createRoot = ViteReactSSG({ \n"
  \o "  routes,\n"
  \o "  rootContainer: document.getElementById('" \o rootId \o "') \n"
  \o "});\n"

\* preactMain of applyPreactPrerender
PreactMainText ==
     "import { hydrate, prerender as ssr } from 'preact-iso';\n"
  \o "import App from './App';\n"
  \o "\n"
  \o "// Hydrate on the client if window is defined\n"
  \o "if (typeof window !== 'undefined') {\n"
  \o "  hydrate(<App />, document.getElementById('root'));\n"
  \o "}\n"
  \o "\n"
  \o "// Export prerender function for the prerender plugin\n"
  \o "export async function prerender(data) {\n"
  \o "  const { html, links } = await ssr(<App {...data} />);\n"
  \o "  return { html, links };\n"
  \o "}\n"

\* applyReactSsgWiring's default for the routes it is not given
DefaultRoutes == <<"/">>

----------------------------------------------------------------------------
(* The generators, as functions of the disk st = [files, writes]           *)

\* a .env written whether or not one is there
EnvAlways(st, step, root, domain) ==
  Write(st, step, Join(root, ".env"), Text(EnvText(domain)))

\* ensureDotFiles: .env and .gitignore, each written only when
\* fs.access fails
EnvOn(st, step, root, domain) ==
  IF Exists(st.files, Join(root, ".env")) THEN st
  ELSE Write(st, step, Join(root, ".env"), Text(EnvText(domain)))

GitignoreOn(st, step, root) ==
  IF Exists(st.files, Join(root, ".gitignore")) THEN st
  ELSE Write(st, step, Join(root, ".gitignore"), Text(GitignoreText))

EnsureDotFilesOn(st, step, root, domain) ==
  GitignoreOn(EnvOn(st, step, root, domain), step, root)

\* applyReactSsgWiring: src/routes.jsx
WiringRoutesOn(st, step, root, detectedRoutes) ==
  Write(st, step, Join(root, "src/routes.jsx"),
        Text(RoutesContent(detectedRoutes)))

\* applyReactSsgWiring: the id of the root element, read from index.html
RootIdOf(f, root) ==
  IF Exists(f, Join(root, "index.html"))
  THEN DetectRootId(f[Join(root, "index.html")].val)
  ELSE "root"

\* applyReactSsgWiring: src/main.ssg.jsx
WiringEntryOn(st, step, root) ==
  Write(st, step, Join(root, "src/main.ssg.jsx"),
        Text(EntryContent(RootIdOf(st.files, root))))

\* applyReactSsgWiring: the script tag of index.html
WiringHtmlOn(st, step, root) ==
  IF Exists(st.files, Join(root, "index.html"))
  THEN Write(st, step, Join(root, "index.html"),
             Text(RewriteEntryScript(st.files[Join(root, "index.html")].val)))
  ELSE st

\* a wiring that leaves the build configuration as it finds it
WiringConfigKept(st, step, configPath) == st

\* applyReactSsgWiring: the build configuration, skipped when it is absent
WiringConfigOn(st, step, configPath) ==
  IF Exists(st.files, configPath)
  THEN Write(st, step, configPath,
             Text(CleanViteConfig(st.files[configPath].val)))
  ELSE st

WiringConfigStep(st, step, root) ==
  WiringConfigOn(st, step, ConfigPath(st.files, root))

\* applyReactSsgWiring after the manifest part: routes.jsx, main.ssg.jsx,
\* index.html, then the build configuration
WiringFilesOn(st, step, root, detectedRoutes) ==
  WiringConfigStep(
    WiringHtmlOn(
      WiringEntryOn(WiringRoutesOn(st, step, root, detectedRoutes), step, root),
      step, root),
    step, root)

\* a configuration step that takes a missing file for an empty one
PreactConfigCreated(st, step, configPath) ==
  Write(st, step, configPath,
        Text(PreactViteConfig(IF Exists(st.files, configPath)
                              THEN st.files[configPath].val ELSE "")))

\* applyPreactPrerender: the build configuration, skipped when it is absent
PreactConfigOn(st, step, configPath) ==
  IF Exists(st.files, configPath)
  THEN Write(st, step, configPath,
             Text(PreactViteConfig(st.files[configPath].val)))
  ELSE st

PreactConfigStep(st, step, root) ==
  PreactConfigOn(st, step, ConfigPath(st.files, root))

\* applyPreactPrerender: the entry script of index.html
PreactHtmlOn(st, step, root) ==
  IF Exists(st.files, Join(root, "index.html"))
  THEN Write(st, step, Join(root, "index.html"),
             Text(MarkPrerender(st.files[Join(root, "index.html")].val)))
  ELSE st

\* applyPreactPrerender: main.tsx when it exists, else main.jsx when it
\* exists, else main.tsx
PreactTargetPath(f, root) ==
  IF Exists(f, Join(root, "src/main.tsx")) THEN Join(root, "src/main.tsx")
  ELSE IF Exists(f, Join(root, "src/main.jsx")) THEN Join(root, "src/main.jsx")
  ELSE Join(root, "src/main.tsx")

PreactEntryOn(st, step, root) ==
  Write(st, step, PreactTargetPath(st.files, root), Text(PreactMainText))

\* applyPreactPrerender after the manifest part: the build configuration,
\* index.html, the entry file, then the dotfiles
PreactFilesOn(st, step, root, domain) ==
  EnsureDotFilesOn(
    PreactEntryOn(PreactHtmlOn(PreactConfigStep(st, step, root), step, root),
                  step, root),
    step, root, domain)

----------------------------------------------------------------------------
(* The inputs of the archive pipeline                                      *)

UserConfigText ==
     "import { defineConfig } from 'vite';\n"
  \o "import react from '@vitejs/plugin-react';\n"
  \o "\n"
  \o "export default defineConfig({\n"
  \o "  plugins: [react()],\n"
  \o "});\n"

IndexHtmlText ==
     "<!doctype html>\n<html>\n  <body>\n    <div id=\"app\"></div>\n"
  \o "    <script type=\"module\" src=\"/src/main.tsx\"></script>\n"
  \o "  </body>\n</html>\n"

AppText ==
     "export default function App() {\n"
  \o "  return <Routes><Route path=\"/contact\" element={<C />} />"
  \o "<Route path=\"*\" element={<N />} /></Routes>;\n}\n"

\* the manifests of the uploaded projects
BareManifest == "name" :> "demo"

ViteManifest ==
  ("name" :> "demo")
    @@ ("dependencies" :> ("react" :> "^18.2.0"))
    @@ ("scripts" :> (("dev" :> "vite") @@ ("build" :> "tsc && vite build")))

PinnedManifest ==
  ("dependencies" :> ("react-router-dom" :> "^5.3.0"))
    @@ ("devDependencies" :> (("vite-bundle-visualizer" :> "^2.0.0")
                                @@ ("vite" :> "^4.5.0")))

\* every name a generator requires
RequiredNames ==
  {e[1] : e \in {SEO_DEPENDENCIES[i] : i \in DOMAIN SEO_DEPENDENCIES}
                  \cup {SEO_DEV_DEPENDENCIES[i] : i \in DOMAIN SEO_DEV_DEPENDENCIES}
                  \cup {preactDeps[i] : i \in DOMAIN preactDeps}}
    \cup {"react-router-dom", "vite-react-ssg"}

\* a manifest that holds everything the generators add, all of it in
\* dependencies, and has no devDependencies mapping
SettledManifest ==
  ("name" :> "demo")
    @@ ("dependencies" :> [n \in RequiredNames |-> "^1.0.0"])
    @@ ("scripts" :> (("dev" :> "vite-react-ssg dev")
                        @@ ("build" :> "vite-react-ssg build")
                        @@ ("analyze" :> "vite-bundle-visualizer")))
    @@ ("type" :> "module")

\* the settled manifest after its owner moved to the visualizer's 2.x
UpgradedManifest ==
  [SettledManifest EXCEPT
     !["dependencies"] = ("vite-bundle-visualizer" :> "^2.0.0") @@ @]

PkgOptions ==
  {NoFiles}
    \cup {"package.json" :> c :
            c \in {Text("{ not json"), Json(BareManifest), Json(ViteManifest),
                   Json(PinnedManifest), Json(UpgradedManifest)}}

ConfigOptions ==
  {NoFiles, "vite.config.ts" :> Text(UserConfigText),
   "vite.config.js" :> Text(UserConfigText)}

HtmlOptions == {NoFiles, "index.html" :> Text(IndexHtmlText)}

SourceOptions ==
  {NoFiles,
   ("src/pages/Index.jsx" :> Text("export default () => null;\n"))
     @@ ("src/pages/About.jsx" :> Text("export default () => null;\n"))
     @@ ("src/main.jsx" :> Text("import './App';\n")),
   ("src/App.tsx" :> Text(AppText))
     @@ ("src/main.tsx" :> Text("import './App';\n"))
     @@ ("dist/index.html" :> Text("<!-- an earlier build -->"))}

Projects ==
  {a @@ b @@ c @@ d : a \in PkgOptions, b \in ConfigOptions,
                      c \in HtmlOptions, d \in SourceOptions}

\* the tree with every path moved below dir
Below(dir, tree) ==
  [q \in {Join(dir, p) : p \in DOMAIN tree} |-> tree[From(q, Len(dir) + 2)]]

\* the ways an archive holds a project other than at its top level: in a
\* single folder, in a single folder beside the sidecars of macOS, in one
\* of two folders, two folders deep
Nested(tree) ==
  {Below("app", tree),
   Below("app", tree) @@ ("__MACOSX/._app" :> Text(""))
                      @@ (".DS_Store" :> Text("")),
   Below("app", tree) @@ ("docs/README.md" :> Text("# docs\n")),
   Below("wrap/app", tree)}

\* the projects that are also tried in the nested layouts
NestedProjects ==
  {a @@ b @@ ("index.html" :> Text(IndexHtmlText))
     @@ ("README.md" :> Text("# demo\n")) :
     a \in PkgOptions, b \in ConfigOptions \ {"vite.config.js" :> Text(UserConfigText)}}

\* the archives main() is given, each at the absolute path it was resolved to
Archives ==
  {[ok |-> FALSE, path |-> "/work/broken.zip", tree |-> NoFiles]}
    \cup {[ok |-> TRUE, path |-> "/work/site.zip", tree |-> t] : t \in Projects}
    \cup {[ok |-> TRUE, path |-> "/srv/uploads/my.app.zip", tree |-> t] :
            t \in UNION {Nested(p) : p \in NestedProjects}}

Strategies == {"react", "preact", "PREACT", "vue"}

Domains == {"https://example.com", "https://site.dev/"}

NoManifest == [k \in {} |-> ""]

NoLast == [step |-> "none"]

Init ==
  /\ zip \in Archives
  /\ args \in [strategy : Strategies, domain : Domains, build : BOOLEAN]
  /\ pc = "extract"
  /\ tempDir = TRUE
  /\ rmCount = 0
  /\ files = NoFiles
  /\ files0 = NoFiles
  /\ projectRoot = ""
  /\ pkg = NoManifest
  /\ steps = <<>>
  /\ writes = <<>>
  /\ outZip = [written |-> FALSE, path |-> "", tree |-> NoFiles]
  /\ buildResult = "none"
  /\ outcome = "running"
  /\ last = NoLast

----------------------------------------------------------------------------
(* apply-zip.mjs: main(), from the creation of the working directory on    *)

\* the working directory left in place
KeepTempDir == UNCHANGED <<tempDir, rmCount, files>>

\* try { fs.rmSync(tempDir, { recursive: true, force: true }); } catch (e) {}
RemoveTempDir ==
  /\ tempDir' = FALSE
  /\ rmCount' = rmCount + 1
  /\ files' = NoFiles

\* 1. new AdmZip(zipPath).extractAllTo(tempDir, true); on an error the
\* working directory is removed and the process exits with 1
ExtractZip ==
  /\ pc = "extract"
  /\ IF zip.ok
     THEN /\ files' = zip.tree
          /\ files0' = zip.tree
          /\ pc' = "detectRoot"
          /\ UNCHANGED <<tempDir, rmCount, outcome>>
     ELSE /\ RemoveTempDir
          /\ outcome' = "ExtractionFailure"
          /\ pc' = "exit"
          /\ UNCHANGED files0
  /\ UNCHANGED <<zip, args, projectRoot, pkg, steps, writes, outZip,
                 buildResult, last>>

\* every entry of the extraction directory, the ignored ones included
AllEntries(f) == ReadDir(f, "")

\* files.filter(f => !f.startsWith('.') && f !== '__MACOSX')
ValidFiles(f) ==
  {n \in ReadDir(f, "") : ~StartsWithAt(n, ".", 1) /\ n # "__MACOSX"}

\* the project root of the extracted tree, relative to the working directory
ResolveProjectRoot(f) ==
  IF Cardinality(ValidFiles(f)) = 1
       /\ IsDirectory(f, CHOOSE n \in ValidFiles(f) : TRUE)
  THEN CHOOSE n \in ValidFiles(f) : TRUE
  ELSE ""

DetectProjectRoot ==
  /\ pc = "detectRoot"
  /\ projectRoot' = ResolveProjectRoot(files)
  /\ pc' = "checkManifest"
  /\ UNCHANGED <<zip, args, tempDir, rmCount, files, files0, pkg, steps,
                 writes, outZip, buildResult, outcome, last>>

\* if (!fs.existsSync(pkgPath)) { ...; rmSync(tempDir); process.exit(1); }
CheckManifest ==
  /\ pc = "checkManifest"
  /\ IF Exists(files, Join(projectRoot, "package.json"))
     THEN /\ pc' = "cli"
          /\ UNCHANGED <<tempDir, rmCount, files, outcome>>
     ELSE /\ RemoveTempDir
          /\ outcome' = "MissingManifest"
          /\ pc' = "exit"
  /\ UNCHANGED <<zip, args, files0, projectRoot, pkg, steps, writes, outZip,
                 buildResult, last>>

\* a dispatch that takes every value but 'react' for preact
DispatchStrict(strategy) ==
  IF strategy = "react" THEN "updatePackageJson" ELSE "applyPreactPrerender"

\* run(): if (strategy === 'preact') applyPreactPrerender
\*        else applyReactSsgSeo, whose first step is updatePackageJson
Dispatch(strategy) ==
  IF strategy = "preact" THEN "applyPreactPrerender" ELSE "updatePackageJson"

\* what fs.readFile and JSON.parse make of the file at path: its content,
\* or a text that does not parse when the file cannot be read
ReadManifest(f, path) == IF Exists(f, path) THEN f[path] ELSE Text("")

\* a caller that prints the error of a failed run and goes on
RunStartLenient ==
  /\ pc = "cli"
  /\ LET c == ReadManifest(files, Join(projectRoot, "package.json"))
     IN IF c.kind = "json"
        THEN /\ pkg' = c.val
             /\ pc' = Dispatch(ToLowerCase(args.strategy))
             /\ UNCHANGED outcome
        ELSE /\ outcome' = "RunFailure"
             /\ pc' = "patch"
             /\ UNCHANGED pkg
  /\ UNCHANGED <<zip, args, tempDir, rmCount, files, files0, projectRoot,
                 steps, writes, outZip, buildResult, last>>

\* a run that takes a manifest it cannot read or parse for an empty one
RunStartDefaulting ==
  /\ pc = "cli"
  /\ LET c == ReadManifest(files, Join(projectRoot, "package.json"))
     IN pkg' = IF c.kind = "json" THEN c.val ELSE NoManifest
  /\ pc' = Dispatch(ToLowerCase(args.strategy))
  /\ UNCHANGED <<zip, args, tempDir, rmCount, files, files0, projectRoot,
                 steps, writes, outZip, buildResult, last, outcome>>

\* 2. runCommand('node', [cliPath, projectRoot, --domain, --strategy]):
\* main() of cli.mjs lower-cases the strategy and calls run(), which reads
\* and parses package.json and dispatches on the strategy.  When run()
\* throws, cli.mjs exits with 1, runCommand throws and main() of
\* apply-zip.mjs exits with 1.
RunStart ==
  /\ pc = "cli"
  /\ LET c == ReadManifest(files, Join(projectRoot, "package.json"))
     IN IF c.kind = "json"
        THEN /\ pkg' = c.val
             /\ pc' = Dispatch(ToLowerCase(args.strategy))
             /\ UNCHANGED outcome
        ELSE /\ outcome' = "RunFailure"
             /\ pc' = "exit"
             /\ UNCHANGED pkg
  /\ UNCHANGED <<zip, args, tempDir, rmCount, files, files0, projectRoot,
                 steps, writes, outZip, buildResult, last>>

\* what every generator step leaves alone
StepFrame == UNCHANGED <<zip, args, tempDir, rmCount, files0, projectRoot,
                         outZip, buildResult, outcome, last>>

Disk == [files |-> files, writes |-> writes]

\* applyReactSsgSeo, step 1
UpdatePackageJson ==
  /\ pc = "updatePackageJson"
  /\ LET r  == UpdatePackageJsonMerge(pkg)
         st == PersistManifest(Disk, "updatePackageJson", projectRoot, r)
     IN /\ pkg' = r.pkg
        /\ files' = st.files
        /\ writes' = st.writes
  /\ steps' = Append(steps, "updatePackageJson")
  /\ pc' = "ensureSeoComponent"
  /\ StepFrame

\* a step of applyReactSsgSeo that writes one file unconditionally
EmitStep(step, rel, content, next) ==
  /\ LET st == Write(Disk, step, Join(projectRoot, rel), Text(content))
     IN /\ files' = st.files
        /\ writes' = st.writes
  /\ steps' = Append(steps, step)
  /\ pc' = next
  /\ UNCHANGED pkg
  /\ StepFrame

EnsureSeoComponent ==
  /\ pc = "ensureSeoComponent"
  /\ EmitStep("ensureSeoComponent", "src/components/Seo.tsx",
              SeoComponentText, "ensureSitemapHelper")

EnsureSitemapHelper ==
  /\ pc = "ensureSitemapHelper"
  /\ EmitStep("ensureSitemapHelper", "src/seo/sitemap.ts",
           SitemapText(args.domain), "ensureRobotsTxt")

EnsureRobotsTxt ==
  /\ pc = "ensureRobotsTxt"
  /\ EmitStep("ensureRobotsTxt", "public/robots.txt", RobotsText(args.domain),
           "updateViteConfig")

\* updateViteConfig: the target is vite.config.ts when it exists and
\* vite.config.js otherwise, and it is written in either case
UpdateViteConfig ==
  /\ pc = "updateViteConfig"
  /\ LET st == Write(Disk, "updateViteConfig", ConfigPath(files, projectRoot),
                     Text(ViteConfigTemplate(StripTrailingSlash(args.domain))))
     IN /\ files' = st.files
        /\ writes' = st.writes
  /\ steps' = Append(steps, "updateViteConfig")
  /\ pc' = "writeSeoGuide"
  /\ UNCHANGED pkg
  /\ StepFrame

WriteSeoGuide ==
  /\ pc = "writeSeoGuide"
  /\ EmitStep("writeSeoGuide", "SEO_GUIDE.md",
           GuideText(ProjectName(pkg), args.domain), "ensureDotFiles")

EnsureDotFiles ==
  /\ pc = "ensureDotFiles"
  /\ LET st == EnsureDotFilesOn(Disk, "ensureDotFiles", projectRoot, args.domain)
     IN /\ files' = st.files
        /\ writes' = st.writes
  /\ steps' = Append(steps, "ensureDotFiles")
  /\ pc' = "applyReactSsgWiring"
  /\ UNCHANGED pkg
  /\ StepFrame

\* run() calls applyReactSsgWiring({ projectRoot, pkg, domain }): no routes
\* are passed, so detectedRoutes is the default
ApplyReactSsgWiring ==
  /\ pc = "applyReactSsgWiring"
  /\ LET r  == WiringMerge(pkg)
         s1 == PersistManifest(Disk, "applyReactSsgWiring", projectRoot, r)
         s2 == WiringFilesOn(s1, "applyReactSsgWiring", projectRoot,
                             DefaultRoutes)
     IN /\ pkg' = r.pkg
        /\ files' = s2.files
        /\ writes' = s2.writes
  /\ steps' = Append(steps, "applyReactSsgWiring")
  /\ pc' = "patch"
  /\ StepFrame

ApplyPreactPrerender ==
  /\ pc = "applyPreactPrerender"
  /\ LET r  == PreactMerge(pkg)
         s1 == PersistManifest(Disk, "applyPreactPrerender", projectRoot, r)
         s2 == PreactFilesOn(s1, "applyPreactPrerender", projectRoot,
                             args.domain)
     IN /\ pkg' = r.pkg
        /\ files' = s2.files
        /\ writes' = s2.writes
  /\ steps' = Append(steps, "applyPreactPrerender")
  /\ pc' = "patch"
  /\ StepFrame

\* "Patch package.json": read it back, fixVersion both mappings, write it
\* when patched; a file that does not parse is only warned about
PatchPackageJson ==
  /\ pc = "patch"
  /\ LET c  == files[Join(projectRoot, "package.json")]
         r  == IF c.kind = "json" THEN PatchManifest(c.val)
               ELSE [pkg |-> NoManifest, updated |-> FALSE]
         st == PersistManifest(Disk, "patch", projectRoot, r)
     IN /\ files' = st.files
        /\ writes' = st.writes
  /\ pc' = "build"
  /\ UNCHANGED <<zip, args, tempDir, rmCount, files0, projectRoot, pkg, steps,
                 outZip, buildResult, outcome, last>>

\* a build that ends the process when a command fails
InstallAndBuildFatal ==
  /\ pc = "build"
  /\ IF args.build
     THEN \E r \in {"ok", "installFailed", "buildFailed"} :
            /\ buildResult' = IF r = "ok" THEN "ok" ELSE "failed"
            /\ pc' = IF r = "ok" THEN "pack" ELSE "exit"
            /\ outcome' = IF r = "ok" THEN outcome ELSE "BuildFailure"
            /\ UNCHANGED <<files, writes>>
     ELSE pc' = "pack" /\ UNCHANGED <<buildResult, files, writes, outcome>>
  /\ UNCHANGED <<zip, args, tempDir, rmCount, files0, projectRoot, pkg, steps,
                 outZip, last>>

\* what npm install leaves in the project
Installed(st, root) ==
  Write(st, "build", Join(root, "package-lock.json"), Text("{}"))

\* what npm run build leaves in the project
Built(st, root) ==
  Write(st, "build", Join(root, "dist/index.html"), Text("<!doctype html>"))

\* if (buildFlag): npm install, then npm run build, both in projectRoot;
\* when either fails the error is printed and main() goes on
InstallAndBuild ==
  /\ pc = "build"
  /\ IF args.build
     THEN \E r \in {"ok", "installFailed", "buildFailed"} :
            /\ buildResult' = IF r = "ok" THEN "ok" ELSE "failed"
            /\ LET st == IF r = "installFailed" THEN Disk
                         ELSE IF r = "buildFailed" THEN Installed(Disk, projectRoot)
                         ELSE Built(Installed(Disk, projectRoot), projectRoot)
               IN /\ files' = st.files
                  /\ writes' = st.writes
     ELSE UNCHANGED <<buildResult, files, writes>>
  /\ pc' = "pack"
  /\ UNCHANGED <<zip, args, tempDir, rmCount, files0, projectRoot, pkg, steps,
                 outZip, outcome, last>>

\* the whole extraction directory, whatever the root
WholeTree(tree, root) == tree

\* the tree below root, with the paths relative to root
Relative(tree, root) ==
  IF root = "" THEN tree
  ELSE [q \in {From(p, Len(root) + 2) :
                 p \in {x \in DOMAIN tree : StartsWithAt(x, root \o "/", 1)}}
          |-> tree[Join(root, q)]]

\* path.parse(p).dir of an absolute path
DirOf(p) ==
  LET slashes == {i \in 1..Len(p) : Ch(p, i) = "/"}
  IN IF Max(slashes) = 1 THEN "/" ELSE SubSeq(p, 1, Max(slashes) - 1)

\* path.parse(p).base
BaseOf(p) == From(p, Max({i \in 1..Len(p) : Ch(p, i) = "/"}) + 1)

\* path.join(baseDir, `${baseName}-seo-ssg.zip`)
OutputPath(zipPath) ==
  (IF DirOf(zipPath) = "/" THEN "" ELSE DirOf(zipPath))
    \o "/" \o StemOf(BaseOf(zipPath)) \o "-seo-ssg.zip"

\* 3. zip.addLocalFolder(projectRoot); zip.writeZip(outputPath); on an
\* error the process exits with 1
PackOutput ==
  /\ pc = "pack"
  /\ \E ok \in BOOLEAN :
       IF ok
       THEN /\ outZip' = [written |-> TRUE, path |-> OutputPath(zip.path),
                           tree |-> Relative(files, projectRoot)]
            /\ pc' = "cleanup"
            /\ UNCHANGED outcome
       ELSE /\ outcome' = "PackFailure"
            /\ pc' = "exit"
            /\ UNCHANGED outZip
  /\ UNCHANGED <<zip, args, tempDir, rmCount, files, files0, projectRoot, pkg,
                 steps, writes, buildResult, last>>

\* the removal of the working directory at the end of main()
Cleanup ==
  /\ pc = "cleanup"
  /\ RemoveTempDir
  /\ outcome' = "ok"
  /\ pc' = "exit"
  /\ UNCHANGED <<zip, args, files0, projectRoot, pkg, steps, writes, outZip,
                 buildResult, last>>

\* the status main() ends with: process.exit(1) on every fatal condition,
\* the normal end of the process otherwise
ExitStatus == IF outcome = "ok" THEN 0 ELSE 1

Next ==
  \/ ExtractZip
  \/ DetectProjectRoot
  \/ CheckManifest
  \/ RunStart
  \/ UpdatePackageJson
  \/ EnsureSeoComponent
  \/ EnsureSitemapHelper
  \/ EnsureRobotsTxt
  \/ UpdateViteConfig
  \/ WriteSeoGuide
  \/ EnsureDotFiles
  \/ ApplyReactSsgWiring
  \/ ApplyPreactPrerender
  \/ PatchPackageJson
  \/ InstallAndBuild
  \/ PackOutput
  \/ Cleanup

Spec == Init /\ [][Next]_vars

----------------------------------------------------------------------------
(* Properties of the archive pipeline                                      *)

PkgPath == Join(projectRoot, "package.json")

\* the strategy run() receives: cli.mjs lower-cases the option's value
RunStrategy == ToLowerCase(args.strategy)

\* applyReactSsgSeo's steps in order, then applyReactSsgWiring
ReactSteps ==
  <<"updatePackageJson", "ensureSeoComponent", "ensureSitemapHelper",
    "ensureRobotsTxt", "updateViteConfig", "writeSeoGuide", "ensureDotFiles",
    "applyReactSsgWiring">>

PreactSteps == <<"applyPreactPrerender">>

\* run() has returned and the working directory still holds the project
RunReturned == pc \in {"patch", "build", "pack", "cleanup"}

IsPrefix(a, b) == Len(a) <= Len(b) /\ a = SubSeq(b, 1, Len(a))

\* the paths of the two conventional configuration files
ConfigPaths ==
  {Join(projectRoot, "vite.config.ts"), Join(projectRoot, "vite.config.js")}

\* neither configuration file was in the extracted project
ConfigAbsentAtStart == \A c \in ConfigPaths : ~Exists(files0, c)

\* the writes made to a configuration file, in order
ConfigWrites == SelectSeq(writes, LAMBDA w : w[2] \in ConfigPaths)

\* C1: whenever main() of apply-zip.mjs has terminated, on whichever exit
\* path, the working directory is gone and was removed exactly once.
C1_RemovedOnEveryExit ==
  pc = "exit" => (~tempDir /\ rmCount = 1)

\* the transformation run failed and main() has exited
C1_Witness ==
  /\ pc = "exit"
  /\ outcome = "RunFailure"
  /\ tempDir
  /\ rmCount = 0

\* C2: the working directory no longer exists when main() terminates after
\* a fully successful run, nor when it terminates because package.json is
\* absent at the resolved project root.
C2_RemovedAfterSuccessAndMissingManifest ==
  (pc = "exit" /\ outcome \in {"ok", "MissingManifest"})
    => (~tempDir /\ rmCount = 1 /\ files = NoFiles)

C2_Witness ==
  /\ pc = "exit"
  /\ outcome = "MissingManifest"
  /\ files0 # NoFiles
  /\ ~tempDir

\* the dependency names a manifest declares in a mapping
Declared(p, field) ==
  IF field \in DOMAIN p THEN DOMAIN p[field] ELSE {}

\* C3: once the transformation and the patch step are done, every name the
\* input manifest declared in dependencies or devDependencies has, in the
\* manifest on disk, the version the input gave it.
C3_DeclaredVersionsKept ==
  (pc = "build" /\ files0[PkgPath].kind = "json" /\ files[PkgPath].kind = "json")
    => \A field \in {"dependencies", "devDependencies"} :
         \A n \in Declared(files0[PkgPath].val, field) :
           /\ n \in Declared(files[PkgPath].val, field)
           /\ files[PkgPath].val[field][n] = files0[PkgPath].val[field][n]

C3_Witness ==
  /\ pc = "build"
  /\ files0[PkgPath] = Json(PinnedManifest)
  /\ files[PkgPath].val.devDependencies["vite-bundle-visualizer"] = "^1.2.1"
  /\ files[PkgPath].val.dependencies["react-router-dom"] = "^5.3.0"

\* the paths of the entries of a routes definition
RoutePathsAt(text) ==
  {i \in 1..Len(text) : StartsWithAt(text, "    path: '", i)}

\* C7: in a react run the routes definition has exactly one entry per route
\* the analysis detects for the project.
C7_OneEntryPerDetectedRoute ==
  (RunReturned /\ RunStrategy # "preact")
    => Cardinality(RoutePathsAt(files[Join(projectRoot, "src/routes.jsx")].val))
         = Cardinality(DetectedRoutes(files0, projectRoot))

C7_Witness ==
  /\ RunReturned
  /\ RunStrategy # "preact"
  /\ DetectedRoutes(files0, projectRoot) = {"/", "/about"}
  /\ Cardinality(RoutePathsAt(files[Join(projectRoot, "src/routes.jsx")].val)) = 1

\* C9 as stated: with neither configuration file in the project, a run
\* reads, patches and creates no configuration file.
C9_NoConfigTouched ==
  (ConfigAbsentAtStart /\ RunReturned)
    => /\ \A c \in ConfigPaths : ~Exists(files, c)
       /\ ConfigWrites = <<>>

\* C9, amended: with neither configuration file in the project, the preact
\* strategy writes and creates no configuration file; the react strategy
\* creates vite.config.js from the template in updateViteConfig, and the
\* wiring then strips the viteSSG plugin from it; under either strategy the
\* run raises no error and every step of the strategy has run.
C9_ConfigAbsent ==
  (ConfigAbsentAtStart /\ (steps # <<>> \/ RunReturned))
    => /\ outcome # "RunFailure"
       /\ RunStrategy = "preact"
            => /\ \A c \in ConfigPaths : tempDir => ~Exists(files, c)
               /\ ConfigWrites = <<>>
               /\ RunReturned => steps = PreactSteps
       /\ (RunStrategy # "preact" /\ RunReturned)
            => /\ steps = ReactSteps
               /\ ~Exists(files, Join(projectRoot, "vite.config.ts"))
               /\ files[Join(projectRoot, "vite.config.js")] =
                    Text(CleanViteConfig(
                           ViteConfigTemplate(StripTrailingSlash(args.domain))))
               /\ ConfigWrites =
                    <<<<"updateViteConfig", Join(projectRoot, "vite.config.js")>>,
                      <<"applyReactSsgWiring", Join(projectRoot, "vite.config.js")>>>>

C9_Witness ==
  /\ ConfigAbsentAtStart
  /\ pc = "patch"
  /\ args.strategy = "react"
  /\ steps = ReactSteps
  /\ Exists(files, Join(projectRoot, "vite.config.js"))
  /\ Len(ConfigWrites) = 2

\* C10: a run executes the steps of one strategy only: the preact steps
\* when run() receives 'preact', the react steps in order for every other
\* value; and run() fails only when package.json does not parse, whatever
\* the strategy.
C10_SingleDispatch ==
  /\ IsPrefix(steps, IF RunStrategy = "preact" THEN PreactSteps ELSE ReactSteps)
  /\ RunReturned
       => steps = IF RunStrategy = "preact" THEN PreactSteps ELSE ReactSteps
  /\ outcome = "RunFailure" => files0[PkgPath].kind # "json"

C10_Witness ==
  /\ args.strategy = "vue"
  /\ pc = "patch"
  /\ steps = ReactSteps

----------------------------------------------------------------------------
(* The generators applied to manifests of every shape.  run() hands the    *)
(* parsed manifest to each generator, which changes it in place and        *)
(* decides whether to write it back.                                       *)

\* the most dependency entries an input manifest declares
MaxDeclared == 2

\* the most generator applications in a row
MaxApplications == 2

MergeNames == {"react-helmet-async", "vite-react-ssg", "preact"}

MergeVersions == {"", "^1.0.0"}

\* one declared dependency
Facts ==
  [field : {"dependencies", "devDependencies"}, name : MergeNames,
   version : MergeVersions]

\* the sets of declarations a manifest can hold: a name has one version in
\* a mapping
FactSets ==
  {S \in SUBSET Facts :
     /\ Cardinality(S) <= MaxDeclared
     /\ \A a, b \in S : (a.field = b.field /\ a.name = b.name) => a = b}

MappingOf(S, field) ==
  [n \in {a.name : a \in {x \in S : x.field = field}}
     |-> (CHOOSE a \in S : a.field = field /\ a.name = n).version]

ScriptOptions ==
  {NoMapping,
   "build" :> "vite build",
   ("dev" :> "vite") @@ ("build" :> "tsc && vite build")
     @@ ("analyze" :> "vite-bundle-visualizer"),
   ("dev" :> "vite --host")
     @@ ("build" :> "vite build --mode production && vite preview"),
   ("dev" :> "webpack serve") @@ ("build" :> "tsc -b")}

\* the manifest with the declarations S; a mapping without entries is left
\* out unless explicit
ManifestOf(S, explicit, scripts, module) ==
  ("name" :> "demo")
    @@ (IF explicit \/ MappingOf(S, "dependencies") # NoMapping
        THEN "dependencies" :> MappingOf(S, "dependencies") ELSE NoMapping)
    @@ (IF explicit \/ MappingOf(S, "devDependencies") # NoMapping
        THEN "devDependencies" :> MappingOf(S, "devDependencies") ELSE NoMapping)
    @@ (IF explicit \/ scripts # NoMapping
        THEN "scripts" :> scripts ELSE NoMapping)
    @@ (IF module THEN "type" :> "module" ELSE NoMapping)

MergeInputs ==
  {SettledManifest}
    \cup {ManifestOf(S, explicit, scripts, module) :
            S \in FactSets, explicit \in BOOLEAN, scripts \in ScriptOptions,
            module \in BOOLEAN}

InitMerge ==
  /\ pkg \in MergeInputs
  /\ files = "package.json" :> Json(pkg)
  /\ files0 = files
  /\ zip = [ok |-> TRUE, tree |-> files]
  /\ args = [strategy |-> "react", domain |-> "https://example.com",
             build |-> FALSE]
  /\ pc = "apply"
  /\ tempDir = TRUE
  /\ rmCount = 0
  /\ projectRoot = ""
  /\ steps = <<>>
  /\ writes = <<>>
  /\ outZip = [written |-> FALSE, path |-> "", tree |-> NoFiles]
  /\ buildResult = "none"
  /\ outcome = "running"
  /\ last = NoLast

\* a generator called with the manifest in memory: r is its merge, st the
\* disk when it returns
Applied(gen, r, st) ==
  /\ Len(steps) < MaxApplications
  /\ last' = [step |-> gen, before |-> pkg, after |-> r.pkg,
              updated |-> r.updated, writesBefore |-> Len(writes),
              onDisk |-> files[Join(projectRoot, "package.json")]]
  /\ pkg' = r.pkg
  /\ files' = st.files
  /\ writes' = st.writes
  /\ steps' = Append(steps, gen)
  /\ UNCHANGED <<pc, zip, args, tempDir, rmCount, files0, projectRoot, outZip,
                 buildResult, outcome>>

ApplyUpdatePackageJson ==
  /\ pc = "apply"
  /\ Applied("updatePackageJson", UpdatePackageJsonMerge(pkg),
          PersistManifest(Disk, "updatePackageJson", projectRoot,
                          UpdatePackageJsonMerge(pkg)))

ApplyWiring ==
  /\ pc = "apply"
  /\ Applied("applyReactSsgWiring", WiringMerge(pkg),
          WiringFilesOn(PersistManifest(Disk, "applyReactSsgWiring",
                                        projectRoot, WiringMerge(pkg)),
                        "applyReactSsgWiring", projectRoot, DefaultRoutes))

ApplyPreact ==
  /\ pc = "apply"
  /\ Applied("applyPreactPrerender", PreactMerge(pkg),
          PreactFilesOn(PersistManifest(Disk, "applyPreactPrerender",
                                        projectRoot, PreactMerge(pkg)),
                        "applyPreactPrerender", projectRoot, args.domain))

NextMerge ==
  \/ ApplyUpdatePackageJson
  \/ ApplyWiring
  \/ ApplyPreact

SpecMerge == InitMerge /\ [][NextMerge]_vars

----------------------------------------------------------------------------
(* Properties of the manifest merges                                       *)

\* pkg.x = pkg.x || {} for the mappings the generator touches: what a
\* generator does to the manifest in memory before any merge
Normalised(gen, p) ==
  IF gen = "applyPreactPrerender"
  THEN EnsureMapping(EnsureMapping(p, "dependencies"), "devDependencies")
  ELSE EnsureMapping(EnsureMapping(EnsureMapping(p, "dependencies"),
                                   "devDependencies"), "scripts")

\* the last generator was applied to the manifest an application of the
\* same generator had just produced
AppliedTwice ==
  /\ Len(steps) >= 2
  /\ steps[Len(steps)] = steps[Len(steps) - 1]

\* the last generator wrote package.json
WroteManifest ==
  \E i \in (last.writesBefore + 1)..Len(writes) :
    writes[i] = <<last.step, "package.json">>

\* C4: a generator applied to the manifest its own previous application
\* produced leaves the manifest as it is and reports no mutation.
C4_MergeIdempotent ==
  AppliedTwice => (last.after = last.before /\ ~last.updated)

C4_Witness ==
  /\ AppliedTwice
  /\ last.step = "updatePackageJson"
  /\ files0["package.json"].val # last.before
  /\ last.after = last.before

\* no name is a key of both mappings
NoOverlap(p) == Declared(p, "dependencies") \cap Declared(p, "devDependencies") = {}

\* C5: after a merge into a manifest that declared no name twice, no name
\* is a key of both dependencies and devDependencies.
C5_NoNameInBothMappings ==
  (steps # <<>> /\ NoOverlap(files0["package.json"].val)) => NoOverlap(pkg)

C5_Witness ==
  /\ steps = <<"updatePackageJson">>
  /\ Declared(files0["package.json"].val, "dependencies") = {}
  /\ Declared(files0["package.json"].val, "devDependencies") = {"react-helmet-async"}
  /\ files0["package.json"].val.devDependencies["react-helmet-async"] = ""
  /\ pkg.dependencies["react-helmet-async"] = "^2.0.0"
  /\ pkg.devDependencies["react-helmet-async"] = ""

\* the manifest holds name in one of its mappings
Holds(p, name) ==
  \E field \in {"dependencies", "devDependencies"} :
    field \in DOMAIN p /\ Truthy(p[field], name)

HoldsAll(p, entries) == \A i \in 1..Len(entries) : Holds(p, entries[i][1])

ScriptOf(p, name) ==
  IF "scripts" \in DOMAIN p /\ name \in DOMAIN p.scripts
  THEN p.scripts[name] ELSE ""

\* the script is not one the wiring rewrites
ScriptSettled(p, name) ==
  Includes(ScriptOf(p, name), "vite") => Includes(ScriptOf(p, name), "vite-react-ssg")

\* the manifest already holds every dependency, script and marker the
\* generator would add
Complete(gen, p) ==
  IF gen = "updatePackageJson"
  THEN /\ HoldsAll(p, SEO_DEPENDENCIES)
       /\ HoldsAll(p, SEO_DEV_DEPENDENCIES)
       /\ ScriptOf(p, "analyze") # ""
  ELSE IF gen = "applyReactSsgWiring"
  THEN /\ Holds(p, "react-router-dom")
       /\ Holds(p, "vite-react-ssg")
       /\ ScriptSettled(p, "build")
       /\ ScriptSettled(p, "dev")
       /\ ScriptOf(p, "dev") # ""
       /\ "type" \in DOMAIN p /\ p.type = "module"
  ELSE HoldsAll(p, preactDeps)

\* C6: a generator writes package.json exactly when one of its merges
\* changed the manifest in memory, and what it writes is that manifest; a
\* manifest that already holds every required dependency, script and marker
\* is not written.
C6_WriteIffMerged ==
  steps # <<>>
    => /\ WroteManifest <=> (last.after # Normalised(last.step, last.before))
       /\ WroteManifest => files["package.json"] = Json(last.after)
       /\ ~WroteManifest => files["package.json"] = last.onDisk
       /\ Complete(last.step, last.before) => ~WroteManifest

\* a settled manifest given to a generator for the first time: it gains
\* the missing mapping in memory and is not written
C6_Witness ==
  /\ Len(steps) = 1
  /\ Complete(last.step, last.before)
  /\ last.after # last.before
  /\ ~WroteManifest
  /\ last.step = "applyReactSsgWiring"
  /\ Len(writes) > last.writesBefore

----------------------------------------------------------------------------
(* Properties of the script rewriting of applyReactSsgWiring               *)

\* the last application was one of applyReactSsgWiring
WiringApplied == steps # <<>> /\ last.step = "applyReactSsgWiring"

\* the scripts the wiring rewrites
RewrittenScripts == {"build", "dev"}

\* the script is one the wiring substitutes in: it holds the marker and
\* not the replacement
HasMarkerOnly(s) ==
  /\ \E i \in 1..(Len(s) - 3) : SubSeq(s, i, i + 3) = "vite"
  /\ ~\E i \in 1..(Len(s) - 13) : SubSeq(s, i, i + 13) = "vite-react-ssg"

\* the script values of the inputs that hold the marker, each with the
\* text expected after the substitution
ExpectedScript ==
  ("vite" :> "vite-react-ssg")
    @@ ("vite build" :> "vite-react-ssg build")
    @@ ("tsc && vite build" :> "tsc && vite-react-ssg build")
    @@ ("vite --host" :> "vite-react-ssg --host")
    @@ ("vite build --mode production && vite preview"
          :> "vite-react-ssg build --mode production && vite preview")

\* C21: when the build or dev script holds 'vite' and not 'vite-react-ssg',
\* the wiring substitutes the first occurrence only and keeps the text
\* before and after it; a script without the marker, or with the
\* replacement already in it, is kept; and an application to the manifest
\* a previous application produced leaves both scripts as they are and
\* reports no mutation.
C21_ScriptRewriteIdempotent ==
  WiringApplied =>
    \A name \in RewrittenScripts :
      LET s == ScriptOf(last.before, name)
          u == ScriptOf(last.after, name)
      IN /\ HasMarkerOnly(s)
              => /\ s \in DOMAIN ExpectedScript
                 /\ u = ExpectedScript[s]
                 /\ Len(u) = Len(s) + 10
                 /\ \E i \in 1..(Len(s) - 3) :
                      /\ SubSeq(u, 1, i - 1) = SubSeq(s, 1, i - 1)
                      /\ SubSeq(u, i, i + 13) = "vite-react-ssg"
                      /\ From(u, i + 14) = From(s, i + 4)
                 /\ ~HasMarkerOnly(u)
                 /\ last.updated
         /\ (~HasMarkerOnly(s) /\ s # "") => u = s
         /\ AppliedTwice => (u = s /\ ~last.updated)

\* the wiring applied a second time to a manifest whose build script had
\* the marker twice and user flags: the second occurrence and the flags are
\* still there and nothing is reported
C21_Witness ==
  /\ WiringApplied
  /\ AppliedTwice
  /\ ScriptOf(files0["package.json"].val, "build")
       = "vite build --mode production && vite preview"
  /\ ScriptOf(last.before, "build")
       = "vite-react-ssg build --mode production && vite preview"
  /\ ScriptOf(last.after, "build") = ScriptOf(last.before, "build")
  /\ ScriptOf(last.after, "dev") = "vite-react-ssg --host"
  /\ ~last.updated

\* the script is not a key of the manifest's scripts
ScriptAbsent(p, name) ==
  "scripts" \notin DOMAIN p \/ name \notin DOMAIN p.scripts

\* C22: a build or dev script that is absent from the manifest before the
\* wiring's merge is set to a default value by it, so both scripts are
\* present afterwards.
C22_AbsentScriptsDefaulted ==
  WiringApplied =>
    \A name \in RewrittenScripts :
      /\ ScriptAbsent(last.before, name) => ~ScriptAbsent(last.after, name)
      /\ ScriptOf(last.after, name) # ""

\* the wiring applied to a manifest without scripts: dev has its default,
\* build is still absent, and that is what was written
C22_Witness ==
  /\ WiringApplied
  /\ Len(steps) = 1
  /\ ScriptAbsent(last.before, "build")
  /\ ScriptAbsent(last.before, "dev")
  /\ last.after.scripts = ("dev" :> "vite-react-ssg dev")
  /\ ScriptAbsent(last.after, "build")
  /\ files["package.json"] = Json(last.after)

----------------------------------------------------------------------------
(* The wiring applied to build configurations of every shape               *)

\* the most pieces a configuration's plugin list is made of
MaxFragments == 5

Fragments == {"a()", ",", " ", "viteSSG(", "(", ")"}

RECURSIVE Concat(_, _)
Concat(q, i) == IF i > Len(q) THEN "" ELSE q[i] \o Concat(q, i + 1)

\* the example of a call with nested parentheses and brackets
ExampleConfig ==
  "plugins: [viteSSG({ includedRoutes: () => [{path:'/'}] }), pluginY()]"

ConfigTexts ==
  {ExampleConfig}
    \cup {"plugins: [" \o Concat(q, 1) \o "]" :
            q \in UNION {[1..n -> Fragments] : n \in 0..MaxFragments}}

InitRemoval ==
  /\ pkg = ViteManifest
  /\ \E t \in ConfigTexts :
       files = ("package.json" :> Json(pkg)) @@ ("vite.config.js" :> Text(t))
  /\ files0 = files
  /\ zip = [ok |-> TRUE, tree |-> files]
  /\ args = [strategy |-> "react", domain |-> "https://example.com",
             build |-> FALSE]
  /\ pc = "apply"
  /\ tempDir = TRUE
  /\ rmCount = 0
  /\ projectRoot = ""
  /\ steps = <<>>
  /\ writes = <<>>
  /\ outZip = [written |-> FALSE, path |-> "", tree |-> NoFiles]
  /\ buildResult = "none"
  /\ outcome = "running"
  /\ last = NoLast

NextRemoval == ApplyWiring

SpecRemoval == InitRemoval /\ [][NextRemoval]_vars

\* "(" minus ")" in s[a..b]
ParenBalance(s, a, b) ==
  Cardinality({j \in a..b : Ch(s, j) = "("})
    - Cardinality({j \in a..b : Ch(s, j) = ")"})

\* the ")" that returns the depth to zero for the call starting at start, or 0
CallEnd(s, start) ==
  LET closes == {j \in start..Len(s) :
                   Ch(s, j) = ")" /\ ParenBalance(s, start, j) = 0}
  IN IF closes = {} THEN 0 ELSE Min(closes)

\* a comma followed only by whitespace precedes a "]"
HasDangling(s) ==
  \E i \in 1..Len(s) :
    Ch(s, i) = "," /\ StartsWithAt(s, "]", SkipSpace(s, i + 1))

\* C8: for a configuration holding "viteSSG(" with its closing parenthesis,
\* the removal deletes the span from the callee through the ")" that
\* returns the depth to zero and the commas and whitespace right after it;
\* the text the wiring writes back has no comma followed only by whitespace
\* before a "]"; and the example becomes "plugins: [pluginY()]".
C8_BalancedRemoval ==
  Len(steps) = 1
    => LET t == files0["vite.config.js"].val
           u == files["vite.config.js"].val
           start == IndexOf(t, "viteSSG(")
       IN /\ (start # 0 /\ CallEnd(t, start) # 0)
               => /\ RemoveCall(t) =
                       SubSeq(t, 1, start - 1)
                         \o From(t, SkipSpaceComma(t, CallEnd(t, start) + 1))
                  /\ ~HasDangling(u)
          /\ t = ExampleConfig => u = "plugins: [pluginY()]"

C8_Witness ==
  /\ Len(steps) = 1
  /\ files0["vite.config.js"].val = "plugins: [a(),,viteSSG()]"
  /\ files["vite.config.js"].val = "plugins: [a(),]"

\* every ")" of s closes a "(" before it and every "(" is closed
Balanced(s) ==
  /\ \A j \in 1..Len(s) : ParenBalance(s, 1, j) >= 0
  /\ ParenBalance(s, 1, Len(s)) = 0

\* how many times the character c occurs in s
CountOf(s, c) == Cardinality({j \in 1..Len(s) : Ch(s, j) = c})

\* C28: the text the wiring writes back has balanced parentheses whenever
\* the text it read has (as many "(" as ")", and properly nested when the
\* input is); and when the "(" of the located viteSSG( has no ")" that
\* returns the depth to zero, the removal deletes nothing: the callee, its
\* parenthesis and every parenthesis of the text are still there.
C28_ParenthesesKeptBalanced ==
  Len(steps) = 1
    => LET t == files0["vite.config.js"].val
           u == files["vite.config.js"].val
           start == IndexOf(t, "viteSSG(")
       IN /\ CountOf(t, "(") = CountOf(t, ")")
               => CountOf(u, "(") = CountOf(u, ")")
          /\ Balanced(t) => Balanced(u)
          /\ (start # 0 /\ CallEnd(t, start) = 0)
               => /\ RemoveCall(t) = t
                  /\ SubSeq(u, 1, start + 7) = SubSeq(t, 1, start + 7)
                  /\ CountOf(u, "(") = CountOf(t, "(")
                  /\ CountOf(u, ")") = CountOf(t, ")")

\* a call with a nested pair of parentheses inside it was removed whole
C28_Witness ==
  /\ Len(steps) = 1
  /\ files0["vite.config.js"].val = "plugins: [a()viteSSG(())]"
  /\ files["vite.config.js"].val = "plugins: [a()]"

\* a call that is never closed was left where it is
C28_UnclosedWitness ==
  /\ Len(steps) = 1
  /\ files0["vite.config.js"].val = "plugins: [a(),viteSSG(()]"
  /\ files["vite.config.js"].val = files0["vite.config.js"].val

----------------------------------------------------------------------------
(* The tool run again and again on one project directory: cli.mjs calls    *)
(* run() with the directory, a domain and a strategy; the files of one run *)
(* are the input of the next.                                              *)

\* the most runs on one project
MaxRuns == 2

UserEnvText == "VITE_BASE_URL=https://mine.example\nSECRET=1\n"

UserGitignoreText == "node_modules\n.vercel\n"

\* the dotfiles a project comes with
DotOptions ==
  {NoFiles,
   ".env" :> Text(UserEnvText),
   ".gitignore" :> Text(UserGitignoreText),
   (".env" :> Text(UserEnvText)) @@ (".gitignore" :> Text(UserGitignoreText))}

\* a page whose entry script is the project's src/main.jsx
JsxIndexHtmlText ==
     "<!doctype html>\n<html>\n  <body>\n    <div id=\"root\"></div>\n"
  \o "    <script type=\"module\" src=\"/src/main.jsx\"></script>\n"
  \o "  </body>\n</html>\n"

\* the page, entry file and build configuration a project comes with
SiteOptions ==
  HtmlOptions
    \cup {("index.html" :> Text(IndexHtmlText))
            @@ ("src/main.tsx" :> Text("import './App';\n"))
            @@ ("vite.config.ts" :> Text(UserConfigText)),
          ("index.html" :> Text(JsxIndexHtmlText))
            @@ ("src/main.jsx" :> Text("import './App';\n"))
            @@ ("vite.config.js" :> Text(UserConfigText))}

RerunProjects ==
  {("package.json" :> Json(m)) @@ d @@ h :
     m \in {BareManifest, ViteManifest}, d \in DotOptions, h \in SiteOptions}

\* before the first run there is no previous run
NoRun == [strategy |-> "", domain |-> "", files |-> NoFiles, writes |-> 0]

InitRerun ==
  /\ files \in RerunProjects
  /\ files0 = files
  /\ zip = [ok |-> TRUE, tree |-> files]
  /\ args \in [strategy : {"react", "preact"}, domain : Domains, build : {FALSE}]
  /\ last = [step |-> "run", runs |-> 1, firstDomain |-> args.domain,
             prev |-> NoRun]
  /\ pc = "cli"
  /\ tempDir = TRUE
  /\ rmCount = 0
  /\ projectRoot = ""
  /\ pkg = NoManifest
  /\ steps = <<>>
  /\ writes = <<>>
  /\ outZip = [written |-> FALSE, path |-> "", tree |-> NoFiles]
  /\ buildResult = "none"
  /\ outcome = "running"

\* run() has returned (pc = "patch"); cli.mjs is called on the same
\* directory with options of the caller's choice.  last.prev keeps the
\* options of the run that has just returned, the tree it left and the
\* length of the log of writes.
RunAgain ==
  /\ pc = "patch"
  /\ last.runs < MaxRuns
  /\ \E s \in {"react", "preact"}, d \in Domains :
       args' = [args EXCEPT !.strategy = s, !.domain = d]
  /\ last' = [last EXCEPT !.runs = @ + 1,
                          !.prev = [strategy |-> args.strategy,
                                    domain |-> args.domain,
                                    files |-> files, writes |-> Len(writes)]]
  /\ pc' = "cli"
  /\ UNCHANGED <<zip, tempDir, rmCount, files, files0, projectRoot, pkg, steps,
                 writes, outZip, buildResult, outcome>>

NextRerun ==
  \/ RunStart
  \/ UpdatePackageJson
  \/ EnsureSeoComponent
  \/ EnsureSitemapHelper
  \/ EnsureRobotsTxt
  \/ UpdateViteConfig
  \/ WriteSeoGuide
  \/ EnsureDotFiles
  \/ ApplyReactSsgWiring
  \/ ApplyPreactPrerender
  \/ RunAgain

SpecRerun == InitRerun /\ [][NextRerun]_vars

----------------------------------------------------------------------------
(* Properties of repeated runs                                             *)

\* the writes of the log that went to path
WritesTo(path) == {i \in DOMAIN writes : writes[i][2] = path}

\* what the first run writes to a dotfile it finds absent
FirstWritten(path) ==
  IF path = ".env" THEN Text(EnvText(last.firstDomain)) ELSE Text(GitignoreText)

\* C11: a .env or .gitignore that the project came with is never written
\* and keeps its content through every run of either strategy; one that was
\* absent is written once, by the first run, and later runs leave that
\* content alone.
C11_DotFilesKept ==
  \A p \in {".env", ".gitignore"} :
    /\ Exists(files0, p) => (WritesTo(p) = {} /\ files[p] = files0[p])
    /\ ~Exists(files0, p) =>
         /\ Cardinality(WritesTo(p)) <= 1
         /\ Exists(files, p) => files[p] = FirstWritten(p)
         /\ pc = "patch" => Exists(files, p)

\* a second run with another domain has finished on a project that came
\* with a .gitignore and without a .env
C11_Witness ==
  /\ last.step = "run"
  /\ last.runs = 2
  /\ pc = "patch"
  /\ args.domain # last.firstDomain
  /\ Exists(files0, ".gitignore")
  /\ ~Exists(files0, ".env")
  /\ files[".env"] = Text(EnvText(last.firstDomain))
  /\ files[".gitignore"] = Text(UserGitignoreText)

\* a run with strategy s has returned, and the run before it on the same
\* directory was one with strategy s too
RanTwice(s) ==
  /\ pc = "patch"
  /\ last.runs >= 2
  /\ last.prev.strategy = s
  /\ args.strategy = s

\* the text files the preact strategy patches
PatchedTexts == {"vite.config.ts", "vite.config.js", "index.html"}

\* C26: a second application of the preact strategy leaves the build
\* configuration and index.html with the content they had after the first.
C26_PreactRerunKeepsTexts ==
  RanTwice("preact") =>
    \A p \in PatchedTexts : Exists(files, p) => files[p] = last.prev.files[p]

\* after two preact runs on a project with a configuration and a page, the
\* plugin call reads ppreact(...) and the script tag has prerender twice
C26_Witness ==
  /\ RanTwice("preact")
  /\ last.runs = 2
  /\ Exists(files0, "vite.config.ts")
  /\ Exists(files0, "index.html")
  /\ files0["vite.config.ts"] = Text(UserConfigText)
  /\ Includes(last.prev.files["vite.config.ts"].val,
              "plugins: [preact({ prerender: { enabled: true } })],")
  /\ Includes(files["vite.config.ts"].val,
              "plugins: [ppreact({ prerender: { enabled: true } })],")
  /\ Includes(last.prev.files["index.html"].val,
              "<script prerender type=\"module\" src=\"/src/main.tsx\">")
  /\ Includes(files["index.html"].val,
              "<script prerender prerender type=\"module\" src=\"/src/main.tsx\">")

\* the entry files the preact strategy chooses between
PreactEntries == {"src/main.tsx", "src/main.jsx"}

\* the entry files written since the previous run returned
EntriesRewritten ==
  {writes[i][2] : i \in {j \in DOMAIN writes :
                           /\ j > last.prev.writes
                           /\ writes[j][1] = "applyPreactPrerender"
                           /\ writes[j][2] \in PreactEntries}}

\* C27: after the preact strategy, the script tag it rewrote in index.html
\* names, in its src attribute, the entry file the strategy overwrote.
C27_PageNamesRewrittenEntry ==
  (pc = "patch" /\ args.strategy = "preact" /\ Exists(files, "index.html"))
    => \A e \in EntriesRewritten :
         Includes(files["index.html"].val, "<script prerender")
           => Includes(files["index.html"].val, "src=\"/" \o e \o "\"")

\* a first preact run on a project whose page loads src/main.jsx: that
\* file holds the new entry, the page names src/main.tsx, which is absent
C27_Witness ==
  /\ pc = "patch"
  /\ last.runs = 1
  /\ args.strategy = "preact"
  /\ Exists(files0, "index.html")
  /\ files0["index.html"] = Text(JsxIndexHtmlText)
  /\ EntriesRewritten = {"src/main.jsx"}
  /\ files["src/main.jsx"] = Text(PreactMainText)
  /\ Includes(files["index.html"].val,
              "<script prerender type=\"module\" src=\"/src/main.tsx\">")
  /\ ~Exists(files, "src/main.tsx")

\* C29: a run with strategy react that follows a run with strategy react
\* and the same domain leaves every file of the project with the content
\* the first run left, creates and removes none, and does not write
\* package.json.
C29_ReactRerunKeepsTree ==
  (RanTwice("react") /\ last.prev.domain = args.domain)
    => /\ files = last.prev.files
       /\ \A i \in DOMAIN writes :
            i > last.prev.writes => writes[i][2] # "package.json"

\* two react runs with one domain on a project with a page, an entry file
\* and a configuration of its own: the first run changed the project, the
\* second wrote its artifacts again and changed nothing
C29_Witness ==
  /\ RanTwice("react")
  /\ last.runs = 2
  /\ last.prev.domain = args.domain
  /\ Exists(files0, "vite.config.ts")
  /\ files0["vite.config.ts"] = Text(UserConfigText)
  /\ files0["package.json"] = Json(ViteManifest)
  /\ last.prev.files # files0
  /\ files = last.prev.files
  /\ Len(writes) > last.prev.writes + 7
  /\ files["package.json"].val.scripts["build"] = "tsc && vite-react-ssg build"
  /\ Includes(files["index.html"].val, "src=\"/src/main.ssg.jsx\"")

----------------------------------------------------------------------------
(* Properties of the archive pipeline: the project root, the output        *)
(* archive, the build step                                                 *)

\* the name of the top-level entry that holds path
TopEntryOf(path) ==
  IF IndexOf(path, "/") = 0 THEN path ELSE SubSeq(path, 1, IndexOf(path, "/") - 1)

\* the top-level entries of the extracted archive that are not ignored
KeptEntries ==
  {n \in {TopEntryOf(q) : q \in DOMAIN files0} :
     Ch(n, 1) # "." /\ n # "__MACOSX"}

\* C12: once the root is detected it is the one kept top-level entry when
\* there is exactly one and it is a directory, and the extraction directory
\* in every other case; the descent is one level only; a project wrapped in
\* app/ resolves to app/, a manifest at the top level to the top level.
C12_ProjectRootDetected ==
  (zip.ok /\ pc \notin {"extract", "detectRoot"}) =>
    /\ projectRoot =
         IF \E d \in KeptEntries : KeptEntries = {d} /\ d \notin DOMAIN files0
         THEN CHOOSE d \in KeptEntries : TRUE
         ELSE ""
    /\ IndexOf(projectRoot, "/") = 0
    /\ (\E t \in NestedProjects : files0 = Below("app", t)) => projectRoot = "app"
    /\ "package.json" \in DOMAIN files0 => projectRoot = ""

\* the sidecars of macOS lie beside the single folder, which is taken for
\* the root and holds the manifest
C12_Witness ==
  /\ pc = "cli"
  /\ "__MACOSX/._app" \in DOMAIN files0
  /\ ".DS_Store" \in DOMAIN files0
  /\ projectRoot = "app"
  /\ Exists(files, "app/package.json")

\* C13: when the pipeline has ended on a failed extraction, a missing
\* manifest or a failed run, the exit status is not zero and no output
\* archive was written; an output archive is written only after every step
\* of the selected strategy has run on a manifest that parsed.
C13_AllOrNothing ==
  /\ (pc = "exit" /\ outcome \in {"ExtractionFailure", "MissingManifest",
                                   "RunFailure"})
       => (ExitStatus # 0 /\ ~outZip.written /\ outZip.tree = NoFiles)
  /\ outZip.written =>
       /\ steps = IF RunStrategy = "preact" THEN PreactSteps ELSE ReactSteps
       /\ files0[PkgPath].kind = "json"
       /\ outcome \in {"running", "ok"}

\* the run failed on the manifest of a project wrapped in a folder: the
\* process has ended, the extracted files are there and nothing was packed
C13_Witness ==
  /\ pc = "exit"
  /\ outcome = "RunFailure"
  /\ projectRoot = "app"
  /\ ExitStatus = 1
  /\ ~outZip.written
  /\ steps = <<>>

\* the extracted file at path lies under the project root
UnderRoot(path) ==
  projectRoot = "" \/ StartsWithAt(path, projectRoot \o "/", 1)

\* path.relative(projectRoot, path)
RelativeTo(path) ==
  IF projectRoot = "" THEN path ELSE From(path, Len(projectRoot) + 2)

\* the paths written by the steps of the log that are in by
WrittenBy(by) == {writes[i][2] : i \in {j \in DOMAIN writes : writes[j][1] \in by}}

GeneratorSteps ==
  {ReactSteps[i] : i \in DOMAIN ReactSteps}
    \cup {PreactSteps[i] : i \in DOMAIN PreactSteps}

\* the output archive holds the extracted file at path, at its path
\* relative to the project root and with the extracted content
PackedAsExtracted(path) ==
  /\ RelativeTo(path) \in DOMAIN outZip.tree
  /\ outZip.tree[RelativeTo(path)] = files0[path]

\* C14 as stated: every extracted file under the project root that no
\* generator step writes is in the output archive with its extracted
\* content.
C14_UntouchedByGenerators ==
  outZip.written =>
    \A q \in DOMAIN files0 :
      (UnderRoot(q) /\ q \notin WrittenBy(GeneratorSteps)) => PackedAsExtracted(q)

\* C14: the entries of the output archive are the files under the project
\* root at their paths relative to it, and every extracted file under the
\* root that neither a generator step nor the version patch of package.json
\* nor the install/build step writes is there with its extracted content.
C14_UntouchedFilesPacked ==
  outZip.written =>
    /\ \A q \in DOMAIN files0 :
         (UnderRoot(q) /\ q \notin WrittenBy(GeneratorSteps \cup {"patch", "build"}))
           => PackedAsExtracted(q)
    /\ \A e \in DOMAIN outZip.tree :
         Join(projectRoot, e) \in DOMAIN files0
                                    \cup WrittenBy(GeneratorSteps \cup {"patch", "build"})

\* a project wrapped in app/ beside the sidecars of macOS was packed: its
\* README is in the archive as extracted, the sidecars are not, and the
\* manifest, which no generator step wrote, was rewritten by the patch
C14_Witness ==
  /\ outZip.written
  /\ projectRoot = "app"
  /\ "__MACOSX/._app" \in DOMAIN files0
  /\ "app/README.md" \notin WrittenBy(GeneratorSteps \cup {"patch", "build"})
  /\ outZip.tree["README.md"] = files0["app/README.md"]
  /\ "app/package.json" \in WrittenBy({"patch"}) \ WrittenBy(GeneratorSteps)
  /\ outZip.tree["package.json"] # files0["app/package.json"]

\* after a failed install or build the pipeline is at the pack step or
\* past it and has not ended on the failure; what it packed is the tree as
\* it stood, and a run that ends well has written the archive and removed
\* the working directory
BuildFailureReported ==
  buildResult = "failed" =>
    /\ pc \in {"pack", "cleanup", "exit"}
    /\ outcome \in {"running", "ok", "PackFailure"}
    /\ pc = "cleanup" =>
         (outZip.written /\ outZip.tree = Relative(files, projectRoot))
    /\ (pc = "exit" /\ outcome # "PackFailure") =>
         (outcome = "ok" /\ ExitStatus = 0 /\ outZip.written
            /\ ~tempDir /\ rmCount = 1)

\* the step in which the install or the build fails goes on to the pack
\* step and leaves every file the transformation wrote as it was
BuildFailureStep ==
  (pc = "build" /\ buildResult' = "failed") =>
    /\ pc' = "pack"
    /\ outcome' = outcome
    /\ \A q \in WrittenBy(GeneratorSteps \cup {"patch"}) :
         q \in DOMAIN files' /\ files'[q] = files[q]

\* C15: a failed npm install or npm run build does not unwind: the pipeline
\* goes on to pack the transformed tree and to remove the working
\* directory, and the files the transformation wrote are unchanged.
C15_BuildFailureDoesNotUnwind ==
  []BuildFailureReported /\ [][BuildFailureStep]_vars

\* the install went through, the build failed, and the run ended well: the
\* archive holds the transformed tree and the lock file, and no build output
C15_Witness ==
  /\ pc = "exit"
  /\ buildResult = "failed"
  /\ outcome = "ok"
  /\ outZip.written
  /\ ~tempDir
  /\ "package-lock.json" \in DOMAIN outZip.tree
  /\ "src/components/Seo.tsx" \in DOMAIN outZip.tree
  /\ "dist/index.html" \notin DOMAIN outZip.tree

\* C16 as stated: a default run that ends well on <base>.zip has written
\* <base>-seo-ssg.zip beside the input, and the archive holds package.json
\* and src/components/SEO.tsx.
C16_OutputHoldsSeoComponent ==
  (pc = "exit" /\ outcome = "ok" /\ args.strategy = "react") =>
    /\ outZip.written
    /\ \E base \in {SubSeq(zip.path, 1, n) : n \in 1..Len(zip.path)} :
         /\ zip.path = base \o ".zip"
         /\ outZip.path = base \o "-seo-ssg.zip"
    /\ "package.json" \in DOMAIN outZip.tree
    /\ "src/components/SEO.tsx" \in DOMAIN outZip.tree

\* a default run has ended well: the archive is beside the input under the
\* expected name and holds the manifest, and the component is in it as
\* Seo.tsx, not as SEO.tsx
C16_Witness ==
  /\ pc = "exit"
  /\ outcome = "ok"
  /\ args.strategy = "react"
  /\ zip.path = "/srv/uploads/my.app.zip"
  /\ outZip.path = "/srv/uploads/my.app-seo-ssg.zip"
  /\ "package.json" \in DOMAIN outZip.tree
  /\ "src/components/Seo.tsx" \in DOMAIN outZip.tree
  /\ "src/components/SEO.tsx" \notin DOMAIN outZip.tree

----------------------------------------------------------------------------
(* Properties of the react strategy: the build configuration               *)

\* the build configuration a finished react run leaves, for a base URL
ExpectedWiredConfig(baseUrl) ==
     "import { defineConfig } from 'vite';\n"
  \o "import react from '@vitejs/plugin-react';\n"
  \o "import { ViteSitemap } from 'vite-plugin-sitemap';\n"
  \o "import { createHtmlPlugin } from 'vite-plugin-html';\n"
  \o "\n"
  \o "// Define your application routes here. This array is used by vite-ssg to\n"
  \o "// prerender each route. Add entries like { path: '/about', name: 'About' }.\n"
  \o "const routes = [\n"
  \o "  { path: '/', name: 'Home' }\n"
  \o "];\n"
  \o "\n"
  \o "export default defineConfig({\n"
  \o "  plugins: [\n"
  \o "    react(),\n"
  \o "    ViteSitemap({\n"
  \o "      baseUrl: '" \o baseUrl \o "',\n"
  \o "      routes,\n"
  \o "      generateRobotsTxt: true\n"
  \o "    }),\n"
  \o "    createHtmlPlugin({\n"
  \o "      minify: true,\n"
  \o "      inject: {\n"
  \o "        data: {\n"
  \o "          title: 'Default Title',\n"
  \o "          description: 'Default Description'\n"
  \o "        }\n"
  \o "      }\n"
  \o "    })\n"
  \o "  ],\n"
  \o "  build: {\n"
  \o "    rollupOptions: {\n"
  \o "      output: {\n"
  \o "        manualChunks: {\n"
  \o "          react: ['react', 'react-dom', 'react-router-dom']\n"
  \o "        }\n"
  \o "      }\n"
  \o "    }\n"
  \o "  }\n"
  \o "});\n"

\* the domains of the runs without a trailing slash
ExpectedBaseUrl ==
  ("https://example.com" :> "https://example.com")
    @@ ("https://site.dev/" :> "https://site.dev")

\* the positions in the log of the writes a step made to a path
WritesOf(step, path) == {i \in DOMAIN writes : writes[i] = <<step, path>>}

\* the wiring has run
WiringDone == \E i \in DOMAIN steps : steps[i] = "applyReactSsgWiring"

\* C24: in the react strategy every step of the SEO bootstrap, the write
\* of the build configuration with the viteSSG plugin among them, is
\* complete before the wiring runs; and once the wiring has run, the build
\* configuration holds no viteSSG at all (no invocation, no import) and
\* still holds the invocations of react, ViteSitemap and createHtmlPlugin.
C24_SsgPluginRemovedAfterBootstrap ==
  /\ pc = "applyReactSsgWiring"
       => /\ steps = SubSeq(ReactSteps, 1, 7)
          /\ WritesOf("updateViteConfig", ConfigPath(files, projectRoot)) # {}
          /\ Includes(files[ConfigPath(files, projectRoot)].val, "viteSSG(")
  /\ (WiringDone /\ RunReturned)
       => LET path == ConfigPath(files, projectRoot)
              text == files[path].val
          IN /\ steps = ReactSteps
             /\ \A i \in WritesOf("updateViteConfig", path) :
                  \A j \in WritesOf("applyReactSsgWiring", path) : i < j
             /\ WritesOf("applyReactSsgWiring", path) # {}
             /\ ~Includes(text, "viteSSG")
             /\ Includes(text, "react()")
             /\ Includes(text, "ViteSitemap({")
             /\ Includes(text, "createHtmlPlugin({")
             /\ text = ExpectedWiredConfig(ExpectedBaseUrl[args.domain])

\* a react run on a project that came with its own vite.config.ts has
\* returned: the file was written by the bootstrap and then by the wiring
C24_Witness ==
  /\ pc = "patch"
  /\ steps = ReactSteps
  /\ Exists(files0, Join(projectRoot, "vite.config.ts"))
  /\ files0[Join(projectRoot, "vite.config.ts")] = Text(UserConfigText)
  /\ Cardinality(WritesOf("updateViteConfig", Join(projectRoot, "vite.config.ts"))) = 1
  /\ Cardinality(WritesOf("applyReactSsgWiring", Join(projectRoot, "vite.config.ts"))) = 1
  /\ ~Includes(files[Join(projectRoot, "vite.config.ts")].val, "viteSSG")
  /\ Includes(files[Join(projectRoot, "vite.config.ts")].val, "ViteSitemap({")

----------------------------------------------------------------------------
(* The wiring applied to pages of every shape: index.html is a sequence of *)
(* opening tags, or is missing.                                            *)

\* the most tags of a page
MaxTags == 3

\* the tags a page is made of, each with what it is to a browser: whether
\* the element is a div, and the value of its id attribute ("" for none)
TagTable ==
  ("<div id=\"root\">" :> [div |-> TRUE, id |-> "root"])
    @@ ("<div id='app'>" :> [div |-> TRUE, id |-> "app"])
    @@ ("<div class=\"page\" id=\"main\">" :> [div |-> TRUE, id |-> "main"])
    @@ ("<div id=\"container\">" :> [div |-> TRUE, id |-> "container"])
    @@ ("<div class=\"wrap\">" :> [div |-> TRUE, id |-> ""])
    @@ ("<span id=\"root\">" :> [div |-> FALSE, id |-> "root"])
    @@ ("<div id=\"portal\" data-testid=\"app\">" :> [div |-> TRUE, id |-> "portal"])

Tags == DOMAIN TagTable

\* the text of a page with the tags q in its body
PageText(q) == "<!doctype html>\n<body>\n" \o Concat(q, 1) \o "\n</body>\n"

\* the pages: zip.page tells whether the project has an index.html and
\* zip.tags what its body holds
Pages ==
  {[ok |-> TRUE, tree |-> NoFiles, page |-> FALSE, tags |-> <<>>]}
    \cup {[ok |-> TRUE, tree |-> "index.html" :> Text(PageText(q)),
            page |-> TRUE, tags |-> q] :
            q \in UNION {[1..n -> Tags] : n \in 0..MaxTags}}

InitMount ==
  /\ zip \in Pages
  /\ pkg = ViteManifest
  /\ files = ("package.json" :> Json(pkg)) @@ zip.tree
  /\ files0 = files
  /\ args = [strategy |-> "react", domain |-> "https://example.com",
             build |-> FALSE]
  /\ pc = "apply"
  /\ tempDir = TRUE
  /\ rmCount = 0
  /\ projectRoot = ""
  /\ steps = <<>>
  /\ writes = <<>>
  /\ outZip = [written |-> FALSE, path |-> "", tree |-> NoFiles]
  /\ buildResult = "none"
  /\ outcome = "running"
  /\ last = NoLast

NextMount == ApplyWiring

SpecMount == InitMount /\ [][NextMount]_vars

\* the conventional ids of a mount element
ConventionalIds == {"root", "app", "main"}

\* the positions of the page's divs whose id is in S
DivsWithIdIn(S) ==
  {i \in DOMAIN zip.tags :
     TagTable[zip.tags[i]].div /\ TagTable[zip.tags[i]].id \in S}

\* every id a tag of the page declares
DeclaredIds == {TagTable[zip.tags[i]].id : i \in DOMAIN zip.tags} \ {""}

\* the mount identifier the page calls for
ExpectedMountId ==
  IF DivsWithIdIn(ConventionalIds) # {}
  THEN TagTable[zip.tags[Min(DivsWithIdIn(ConventionalIds))]].id
  ELSE IF DivsWithIdIn(DeclaredIds) # {}
  THEN TagTable[zip.tags[Min(DivsWithIdIn(DeclaredIds))]].id
  ELSE "root"

\* C25: the identifier in the entry file the wiring emits is the id of the
\* first div of index.html whose id is root, app or main, also when a div
\* with another id comes first; without such a div, the id of the first
\* div with an id; and "root" when index.html is missing or no div has an
\* id.
C25_MountIdDetected ==
  steps # <<>>
    => files["src/main.ssg.jsx"] = Text(EntryContent(ExpectedMountId))

\* the page's only element is a div with id portal and a data-testid of
\* app: the entry file mounts on 'app', an id no element has
C25_Witness ==
  /\ Len(steps) = 1
  /\ zip.tags = << "<div id=\"portal\" data-testid=\"app\">" >>
  /\ ExpectedMountId = "portal"
  /\ "app" \notin DeclaredIds
  /\ files["src/main.ssg.jsx"] = Text(EntryContent("app"))

----------------------------------------------------------------------------
(* run() on a project directory in which one path cannot be written: every *)
(* fs.writeFile to it rejects (a read-only file, a directory of that       *)
(* name).  A rejection inside a try block is caught there; any other one   *)
(* leaves the generator, run() and cli.mjs, which exits with 1.  Here last *)
(* holds the path (denied, "" for none) and the writes that were rejected  *)
(* (failed).                                                               *)

\* the one element of a set
TheOne(S) == CHOOSE y \in S : TRUE

\* the disk after the operation that took st to next, with the rejection
\* of its write handled: caught tells whether the write is in a try block
Settle(st, next, step, caught) ==
  IF /\ Len(next.writes) > Len(st.writes)
     /\ next.writes[Len(next.writes)][2] = last.denied
  THEN [st EXCEPT !.thrown = ~caught,
                  !.failed = Append(@, <<step, last.denied>>)]
  ELSE [st EXCEPT !.files = next.files, !.writes = next.writes]

\* an operation of a generator, with at most one write, that takes the
\* disk st = [files, writes, thrown, failed] to next, unless an earlier
\* operation has thrown
Try(st, next, step, caught) ==
  IF st.thrown THEN st
  ELSE TheOne({Settle(st, n, step, caught) : n \in {next}})

\* the k-th operation of generator gen on the disk d.  No write of
\* applyReactSsgSeo is in a try block; applyReactSsgWiring and
\* applyPreactPrerender write index.html and the build configuration in
\* try blocks, and nothing else
GeneratorStep(gen, k, d, root, domain, r) ==
  CASE gen = "applyReactSsgSeo" /\ k = 1 ->
         Try(d, PersistManifest(d, "updatePackageJson", root, r),
             "updatePackageJson", FALSE)
    [] gen = "applyReactSsgSeo" /\ k = 2 ->
         Try(d, Write(d, "ensureSeoComponent",
                      Join(root, "src/components/Seo.tsx"),
                      Text(SeoComponentText)),
             "ensureSeoComponent", FALSE)
    [] gen = "applyReactSsgSeo" /\ k = 3 ->
         Try(d, Write(d, "ensureSitemapHelper", Join(root, "src/seo/sitemap.ts"),
                      Text(SitemapText(domain))),
             "ensureSitemapHelper", FALSE)
    [] gen = "applyReactSsgSeo" /\ k = 4 ->
         Try(d, Write(d, "ensureRobotsTxt", Join(root, "public/robots.txt"),
                      Text(RobotsText(domain))),
             "ensureRobotsTxt", FALSE)
    [] gen = "applyReactSsgSeo" /\ k = 5 ->
         Try(d, Write(d, "updateViteConfig", ConfigPath(d.files, root),
                      Text(ViteConfigTemplate(StripTrailingSlash(domain)))),
             "updateViteConfig", FALSE)
    [] gen = "applyReactSsgSeo" /\ k = 6 ->
         Try(d, Write(d, "writeSeoGuide", Join(root, "SEO_GUIDE.md"),
                      Text(GuideText(ProjectName(r.pkg), domain))),
             "writeSeoGuide", FALSE)
    [] gen = "applyReactSsgSeo" /\ k = 7 ->
         Try(d, EnvOn(d, "ensureDotFiles", root, domain), "ensureDotFiles", FALSE)
    [] gen = "applyReactSsgSeo" /\ k = 8 ->
         Try(d, GitignoreOn(d, "ensureDotFiles", root), "ensureDotFiles", FALSE)
    [] gen = "applyReactSsgWiring" /\ k = 1 ->
         Try(d, PersistManifest(d, gen, root, r), gen, FALSE)
    [] gen = "applyReactSsgWiring" /\ k = 2 ->
         Try(d, WiringRoutesOn(d, gen, root, DefaultRoutes), gen, FALSE)
    [] gen = "applyReactSsgWiring" /\ k = 3 ->
         Try(d, WiringEntryOn(d, gen, root), gen, FALSE)
    [] gen = "applyReactSsgWiring" /\ k = 4 ->
         Try(d, WiringHtmlOn(d, gen, root), gen, TRUE)
    [] gen = "applyReactSsgWiring" /\ k = 5 ->
         Try(d, WiringConfigStep(d, gen, root), gen, TRUE)
    [] gen = "applyPreactPrerender" /\ k = 1 ->
         Try(d, PersistManifest(d, gen, root, r), gen, FALSE)
    [] gen = "applyPreactPrerender" /\ k = 2 ->
         Try(d, PreactConfigStep(d, gen, root), gen, TRUE)
    [] gen = "applyPreactPrerender" /\ k = 3 ->
         Try(d, PreactHtmlOn(d, gen, root), gen, TRUE)
    [] gen = "applyPreactPrerender" /\ k = 4 ->
         Try(d, PreactEntryOn(d, gen, root), gen, FALSE)
    [] gen = "applyPreactPrerender" /\ k = 5 ->
         Try(d, EnvOn(d, gen, root, domain), gen, FALSE)
    [] gen = "applyPreactPrerender" /\ k = 6 ->
         Try(d, GitignoreOn(d, gen, root), gen, FALSE)

\* the operations k .. n of generator gen, in the order of its code
RECURSIVE StepsOrThrow(_, _, _, _, _, _, _)
StepsOrThrow(gen, k, n, d, root, domain, r) ==
  IF k > n THEN d
  ELSE TheOne({StepsOrThrow(gen, k + 1, n, e, root, domain, r) :
                 e \in {GeneratorStep(gen, k, d, root, domain, r)}})

ReactSeoOrThrow(st, root, domain, r) ==
  StepsOrThrow("applyReactSsgSeo", 1, 8, st, root, domain, r)

WiringOrThrow(st, root, r) ==
  StepsOrThrow("applyReactSsgWiring", 1, 5, st, root, "", r)

PreactOrThrow(st, root, domain, r) ==
  StepsOrThrow("applyPreactPrerender", 1, 6, st, root, domain, r)

\* the projects run() is pointed at: package.json missing, not JSON, or a
\* manifest, with the pages, entry files and configurations of SiteOptions
FaultProjects ==
  {m @@ h :
     m \in {NoFiles, "package.json" :> Text("{ not json"),
            "package.json" :> Json(ViteManifest),
            "package.json" :> Json(SettledManifest)},
     h \in SiteOptions}

\* the path that cannot be written, or "" for none
DeniedPaths ==
  {"", "package.json", "index.html", "vite.config.ts", "vite.config.js",
   "src/routes.jsx", "src/main.ssg.jsx", "src/main.tsx", "src/main.jsx",
   "src/components/Seo.tsx", "SEO_GUIDE.md", ".env", ".gitignore"}

InitFault ==
  /\ files \in FaultProjects
  /\ files0 = files
  /\ zip = [ok |-> TRUE, tree |-> files]
  /\ args \in [strategy : {"react", "preact"}, domain : {"https://example.com"},
                build : {FALSE}]
  /\ \E p \in DeniedPaths : last = [step |-> "fault", denied |-> p, failed |-> <<>>]
  /\ pc = "cli"
  /\ tempDir = TRUE
  /\ rmCount = 0
  /\ projectRoot = ""
  /\ pkg = NoManifest
  /\ steps = <<>>
  /\ writes = <<>>
  /\ outZip = [written |-> FALSE, path |-> "", tree |-> NoFiles]
  /\ buildResult = "none"
  /\ outcome = "running"

\* the disk a generator starts on
DiskOrThrow ==
  [files |-> files, writes |-> writes, thrown |-> FALSE, failed |-> last.failed]

\* what a generator leaves when it returns or throws: d is the disk, p
\* the manifest in memory, next the control point after a normal return
Generated(gen, d, p, next) ==
  /\ files' = d.files
  /\ writes' = d.writes
  /\ last' = [last EXCEPT !.failed = d.failed]
  /\ pkg' = p
  /\ steps' = Append(steps, gen)
  /\ pc' = IF d.thrown THEN "exit" ELSE next
  /\ outcome' = IF d.thrown THEN "RunFailure" ELSE outcome
  /\ UNCHANGED <<zip, args, tempDir, rmCount, files0, projectRoot, outZip,
                 buildResult>>

\* await applyReactSsgSeo({ projectRoot, pkg, domain })
ApplyReactSsgSeo ==
  /\ pc = "updatePackageJson"
  /\ Generated("applyReactSsgSeo",
               ReactSeoOrThrow(DiskOrThrow, projectRoot, args.domain,
                               UpdatePackageJsonMerge(pkg)),
               UpdatePackageJsonMerge(pkg).pkg, "applyReactSsgWiring")

\* await applyReactSsgWiring({ projectRoot, pkg, domain })
ApplyReactSsgWiringOrThrow ==
  /\ pc = "applyReactSsgWiring"
  /\ Generated("applyReactSsgWiring",
               WiringOrThrow(DiskOrThrow, projectRoot, WiringMerge(pkg)),
               WiringMerge(pkg).pkg, "completed")

\* await applyPreactPrerender({ projectRoot, pkg, domain })
ApplyPreactPrerenderOrThrow ==
  /\ pc = "applyPreactPrerender"
  /\ Generated("applyPreactPrerender",
               PreactOrThrow(DiskOrThrow, projectRoot, args.domain,
                             PreactMerge(pkg)),
               PreactMerge(pkg).pkg, "completed")

\* console.log('SEO/SSG bootstrap completed. Please review the changes.'):
\* run() returns and cli.mjs ends with status 0
RunCompleted ==
  /\ pc = "completed"
  /\ outcome' = "RunCompleted"
  /\ pc' = "exit"
  /\ UNCHANGED <<zip, args, tempDir, rmCount, files, files0, projectRoot, pkg,
                 steps, writes, outZip, buildResult, last>>

NextFault ==
  \/ RunStart
  \/ ApplyReactSsgSeo
  \/ ApplyReactSsgWiringOrThrow
  \/ ApplyPreactPrerenderOrThrow
  \/ RunCompleted

SpecFault == InitFault /\ [][NextFault]_vars

\* C23: when a write of a file the strategy emits or rewrites has failed,
\* index.html and the build configuration included, the run ends with an
\* error and does not report completion.
C23_WriteFailureIsFatal ==
  (pc = "exit" /\ last.failed # <<>>) => outcome = "RunFailure"

\* a react run on a project whose index.html cannot be written: the
\* bootstrap and the wiring have run, the one write to index.html was
\* rejected, the page is as it was and the run reported completion
C23_Witness ==
  /\ pc = "exit"
  /\ outcome = "RunCompleted"
  /\ args.strategy = "react"
  /\ last.denied = "index.html"
  /\ last.failed = << <<"applyReactSsgWiring", "index.html">> >>
  /\ steps = <<"applyReactSsgSeo", "applyReactSsgWiring">>
  /\ files["index.html"] = files0["index.html"]
  /\ Exists(files, "src/main.ssg.jsx")

\* run() cannot read a manifest from the project
ManifestUnreadable ==
  ~Exists(files0, "package.json") \/ files0["package.json"].kind # "json"

\* C30: when package.json at the project root cannot be read or is not
\* valid JSON, run() fails before any generator step executes, and no file
\* of the project has been created or modified.
C30_UnreadableManifestStopsRun ==
  (ManifestUnreadable /\ pc # "cli")
    => /\ pc = "exit"
       /\ outcome = "RunFailure"
       /\ steps = <<>>
       /\ writes = <<>>
       /\ files = files0
       /\ pkg = NoManifest

\* run() has failed on a project that has a page, an entry file and a
\* configuration but a package.json that is not JSON
C30_Witness ==
  /\ pc = "exit"
  /\ outcome = "RunFailure"
  /\ Exists(files0, "package.json")
  /\ files0["package.json"] = Text("{ not json")
  /\ Exists(files0, "vite.config.ts")
  /\ steps = <<>>
  /\ files = files0

\* run() has failed on a project without package.json
C30_MissingWitness ==
  /\ pc = "exit"
  /\ outcome = "RunFailure"
  /\ ~Exists(files0, "package.json")
  /\ Exists(files0, "index.html")
  /\ files = files0

----------------------------------------------------------------------------
(* The web server: POST /convert, two requests in flight.  multer has      *)
(* stored each upload in uploads/ under a random name; the handler renames *)
(* it, runs apply-zip.mjs on it in a child process, renames the output to  *)
(* a name made from the upload's original name, sends it and cleans up.    *)
(* There are two versions of the handler: server.js, and part_000 with     *)
(* validation and asynchronous file calls.  Here pc, args, zip and outZip  *)
(* are functions of the request; files is the uploads directory and writes *)
(* the log of <<request, operation, path>>.                                *)

Requests == {"r1", "r2"}

\* multer's file names: 16 random bytes in hex, taken to differ
Filename == [r \in Requests |-> IF r = "r1" THEN "3f9a" ELSE "c41d"]

Servers == {"server.js", "part_000"}

OriginalNames == {"site.zip", "my site.zip", "my_site.zip"}

ALLOWED_STRATEGIES == {"react", "preact"}

\* a response without a download
NoBody == [kind |-> "nothing", of |-> ""]

Upload(r) == [kind |-> "upload", of |-> r]

\* the archive apply-zip.mjs makes of the upload of r
Converted(r) == [kind |-> "archive", of |-> r]

\* path.extname(name)
ExtName(name) == From(name, Len(StemOf(name)) + 1)

\* origName.replace(/[^a-zA-Z0-9_-]/g, '_')
RECURSIVE Sanitised(_)
Sanitised(t) ==
  IF t = "" THEN ""
  ELSE (IF Ch(t, 1) \in WordChars \cup {"-"} THEN Ch(t, 1) ELSE "_")
         \o Sanitised(From(t, 2))

origName(r) == StemOf(zip[r].originalname)

outName(r) ==
  (IF args[r].server = "part_000" THEN Sanitised(origName(r)) ELSE origName(r))
    \o "-seo-ssg.zip"

uploadedTempPath(r) == "uploads/" \o Filename[r]

originalExt(r) ==
  IF ExtName(zip[r].originalname) = "" THEN ".zip"
  ELSE ExtName(zip[r].originalname)

renamedInputPath(r) == uploadedTempPath(r) \o originalExt(r)

\* path.join(dir, `${hashedBaseName}-seo-ssg.zip`)
cliOutPath(r) ==
  "uploads/" \o StemOf(Filename[r] \o originalExt(r)) \o "-seo-ssg.zip"

outputFullPath(r) == "uploads/" \o outName(r)

filesToClean(r) ==
  <<uploadedTempPath(r), renamedInputPath(r), outputFullPath(r), cliOutPath(r)>>

\* fs.unlink(path), its error ignored; fs.existsSync(path) && fs.unlinkSync(path)
Unlink(st, r, path) ==
  IF path \in DOMAIN st.files
  THEN [files  |-> [q \in DOMAIN st.files \ {path} |-> st.files[q]],
        writes |-> Append(st.writes, <<r, "unlink", path>>)]
  ELSE st

RECURSIVE UnlinkAll(_, _, _)
UnlinkAll(st, r, paths) ==
  IF paths = <<>> THEN st
  ELSE UnlinkAll(Unlink(st, r, Head(paths)), r, Tail(paths))

\* fs.rename(from, to): to is replaced when it exists
Rename(st, r, from, to) ==
  [files  |-> (to :> st.files[from])
                @@ [q \in DOMAIN st.files \ {from} |-> st.files[q]],
   writes |-> st.writes \o <<<<r, "rename", from>>, <<r, "rename", to>>>>]

\* the child process writes its output archive
CliWrites(st, r) ==
  [files  |-> (cliOutPath(r) :> Converted(r)) @@ st.files,
   writes |-> Append(st.writes, <<r, "write", cliOutPath(r)>>)]

InitConvert ==
  /\ zip \in [Requests -> [originalname : OriginalNames, present : BOOLEAN]]
  /\ args \in [Requests -> [server : Servers, strategy : {"react", "vue"}]]
  /\ \A r, q \in Requests : args[r].server = args[q].server
  /\ files = [q \in {"uploads/" \o Filename[r] : r \in {x \in Requests : zip[x].present}}
                |-> Upload(CHOOSE r \in Requests : "uploads/" \o Filename[r] = q)]
  /\ pc = [r \in Requests |-> "received"]
  /\ outZip = [r \in Requests |-> [status |-> 0, sent |-> NoBody]]
  /\ writes = <<>>
  /\ files0 = files
  /\ steps = <<>>
  /\ tempDir = TRUE
  /\ rmCount = 0
  /\ projectRoot = ""
  /\ pkg = NoManifest
  /\ buildResult = "none"
  /\ outcome = "running"
  /\ last = NoLast

\* what a step of request r leaves alone
ConvertFrame ==
  UNCHANGED <<zip, args, tempDir, rmCount, files0, projectRoot, pkg, steps,
              buildResult, outcome, last>>

\* request r goes to position to with the disk st; resp is its response so far
Moved(r, to, st, resp) ==
  /\ pc' = [pc EXCEPT ![r] = to]
  /\ files' = st.files
  /\ writes' = st.writes
  /\ outZip' = [outZip EXCEPT ![r] = resp]
  /\ ConvertFrame

\* the handler up to the start of the child process: part_000 refuses a
\* strategy it does not know and removes the upload; without a file the
\* answer is 400; the upload is renamed to carry its extension
Handle(r) ==
  /\ pc[r] = "received"
  /\ IF args[r].server = "part_000" /\ args[r].strategy \notin ALLOWED_STRATEGIES
     THEN Moved(r, "done", Unlink(Disk, r, uploadedTempPath(r)),
                [status |-> 400, sent |-> NoBody])
     ELSE IF ~zip[r].present
          THEN Moved(r, "done", Disk, [status |-> 400, sent |-> NoBody])
          ELSE Moved(r, "cli",
                     Rename(Disk, r, uploadedTempPath(r), renamedInputPath(r)),
                     outZip[r])

\* the child process ends and its callback runs.  On success the output is
\* renamed to outputFullPath and res.download is called; on an error
\* server.js answers 500, part_000 also unlinks filesToClean
CliDone(r) ==
  /\ pc[r] = "cli"
  /\ \E ok \in BOOLEAN :
       IF ok
       THEN Moved(r, "sending",
                  Rename(CliWrites(Disk, r), r, cliOutPath(r), outputFullPath(r)),
                  outZip[r])
       ELSE Moved(r, "done",
                  IF args[r].server = "part_000"
                  THEN UnlinkAll(Disk, r, filesToClean(r)) ELSE Disk,
                  [status |-> 500, sent |-> NoBody])

\* res.download opens outputFullPath and streams what it holds
Send(r) ==
  /\ pc[r] = "sending"
  /\ Moved(r, "cleanup", Disk,
           IF outputFullPath(r) \in DOMAIN files
           THEN [status |-> 200, sent |-> files[outputFullPath(r)]]
           ELSE [status |-> 404, sent |-> NoBody])

\* the callback of res.download: server.js unlinks the renamed input and
\* the output, part_000 everything in filesToClean
CleanUp(r) ==
  /\ pc[r] = "cleanup"
  /\ Moved(r, "done",
           IF args[r].server = "part_000"
           THEN UnlinkAll(Disk, r, filesToClean(r))
           ELSE Unlink(Unlink(Disk, r, renamedInputPath(r)), r, outputFullPath(r)),
           outZip[r])

NextConvert ==
  \E r \in Requests :
    \/ Handle(r)
    \/ CliDone(r)
    \/ Send(r)
    \/ CleanUp(r)

SpecConvert == InitConvert /\ [][NextConvert]_vars

----------------------------------------------------------------------------
(* Properties of the web server                                            *)

\* no path of the log was touched by two requests
NoSharedPath ==
  \A i, j \in DOMAIN writes :
    writes[i][1] # writes[j][1] => writes[i][3] # writes[j][3]

\* what a request has downloaded is the archive made of its own upload
OwnDownload ==
  \A r \in Requests :
    outZip[r].sent # NoBody => outZip[r].sent = Converted(r)

\* a request that still has to send its archive finds it where it put it
OutputStillThere ==
  \A r \in Requests :
    pc[r] = "sending" =>
      (outputFullPath(r) \in DOMAIN files
         /\ files[outputFullPath(r)] = Converted(r))

\* C17 as stated: two requests in flight touch no path in common, each
\* downloads the archive made of its own upload, and no clean-up removes a
\* file another request still has to send.
C17_RequestsIndependent ==
  /\ NoSharedPath
  /\ OwnDownload
  /\ OutputStillThere
  /\ \A r \in Requests : outZip[r].status \in {0, 200, 400, 500}

\* two uploads named site.zip: r1 was answered 200 with the archive made of
\* the upload of r2, and r2, whose conversion also went through, found no
\* file to send
C17_Witness ==
  /\ zip["r1"].originalname = "site.zip"
  /\ zip["r2"].originalname = "site.zip"
  /\ outZip["r1"] = [status |-> 200, sent |-> Converted("r2")]
  /\ outZip["r2"].status = 404
  /\ pc = [r \in Requests |-> "done"]

----------------------------------------------------------------------------
(* analyzeProject called on project trees: page files in src/pages or      *)
(* src/views, path attributes in an entry file, and trees where src, the   *)
(* pages directory or the entry file is missing or cannot be read.         *)

\* the most page files of a project
MaxPages == 2

\* the most path attributes of an entry file
MaxAttrs == 3

PageNames ==
  {"Index.jsx", "About.jsx", "Home.tsx", "Contact.ts", "Blog.Post.js",
   "notes.md", "data.json"}

\* the values of the path attributes, in the order they are written in
AttrOrder ==
  <<"/contact", "*", ":id", "about", "/", "/users/:id", "/Admin", "/about-us">>

PagesTree(dir, S) ==
  [q \in {dir \o "/" \o n : n \in S} |-> Text("export default () => null;\n")]

\* the quote around the i-th attribute: double and single in turn
QuoteOf(i) == IF i % 2 = 1 THEN "\"" ELSE "'"

\* the routes of an entry file that holds the attributes with values in V
RECURSIVE RouteElements(_, _)
RouteElements(V, i) ==
  IF i > Len(AttrOrder) THEN ""
  ELSE (IF AttrOrder[i] \in V
        THEN "<Route path=" \o QuoteOf(i) \o AttrOrder[i] \o QuoteOf(i)
               \o " element={<Page />} />\n"
        ELSE "")
         \o RouteElements(V, i + 1)

EntryTree(file, V) ==
  IF V = {} THEN NoFiles ELSE file :> Text(RouteElements(V, 1))

\* a file that is there and cannot be read
Denied(t) == [kind |-> "denied", val |-> t]

\* trees with parts missing or unreadable: no src, src a regular file, the
\* pages directory a regular file beside an unreadable entry file, an
\* entry file that is a directory, a components directory
FaultTrees ==
  {NoFiles,
   "src" :> Text(""),
   ("src/pages" :> Text("")) @@ ("src/App.tsx" :> Denied("path=\"/secret\"")),
   ("src/App.tsx/index.ts" :> Text("path=\"/inner\""))
     @@ ("src/views/About.jsx" :> Text("")),
   ("src/components/Seo.tsx" :> Text("")) @@ ("package.json" :> Json(BareManifest))}

AnalyzedTrees ==
  FaultTrees
    \cup {PagesTree(dir, S) @@ EntryTree(file, V) :
            dir \in {"src/pages", "src/views"},
            S \in {X \in SUBSET PageNames : Cardinality(X) <= MaxPages},
            file \in {"src/App.tsx", "src/routes.jsx"},
            V \in {X \in SUBSET {AttrOrder[i] : i \in DOMAIN AttrOrder} :
                     Cardinality(X) <= MaxAttrs}}

InitAnalyze ==
  /\ files \in AnalyzedTrees
  /\ files0 = files
  /\ pc = "analyze"
  /\ last = NoLast
  /\ zip = [ok |-> TRUE, path |-> "", tree |-> files]
  /\ args = [strategy |-> "react", domain |-> "https://example.com",
             build |-> FALSE]
  /\ tempDir = TRUE
  /\ rmCount = 0
  /\ projectRoot = ""
  /\ pkg = NoManifest
  /\ steps = <<>>
  /\ writes = <<>>
  /\ outZip = [written |-> FALSE, path |-> "", tree |-> NoFiles]
  /\ buildResult = "none"
  /\ outcome = "running"

\* const { routes, hasComponents } = await analyzeProject(projectRoot)
Analyze ==
  /\ pc = "analyze"
  /\ last' = [step |-> "analyzeProject"] @@ AnalyzeProject(files, projectRoot)
  /\ pc' = "returned"
  /\ UNCHANGED <<zip, args, tempDir, rmCount, files, files0, projectRoot, pkg,
                 steps, writes, outZip, buildResult, outcome>>

NextAnalyze == Analyze

SpecAnalyze == InitAnalyze /\ [][NextAnalyze]_vars

----------------------------------------------------------------------------
(* Properties of analyzeProject                                            *)

\* the routes returned, as a set
Returned == {last.routes[i] : i \in DOMAIN last.routes}

\* the names of the files in the two pages directories
PageFiles ==
  {From(q, 11) : q \in {x \in DOMAIN files : \/ StartsWithAt(x, "src/pages/", 1)
                                            \/ StartsWithAt(x, "src/views/", 1)}}

\* the entry files of the tree that can be read
ReadableEntries ==
  {f \in searchFiles : f \in DOMAIN files /\ files[f].kind = "text"}

\* the route each page file of the inputs stands for; "" for none
RouteOfPage ==
  [n \in PageNames |->
     CASE n = "Index.jsx"    -> "/"
       [] n = "About.jsx"    -> "/about"
       [] n = "Home.tsx"     -> "/"
       [] n = "Contact.ts"   -> "/contact"
       [] n = "Blog.Post.js" -> "/blog.post"
       [] OTHER              -> ""]

\* C18: every file of src/pages or src/views that ends in .js, .jsx, .ts or
\* .tsx adds "/" when its lowercased stem is index or home and "/" plus the
\* lowercased stem otherwise, other files add nothing, and with page files
\* Index.jsx and About.jsx and no entry file the result is <<"/", "/about">>.
C18_RoutesOfPageFiles ==
  pc = "returned" =>
    /\ \A n \in PageFiles : RouteOfPage[n] # "" => RouteOfPage[n] \in Returned
    /\ ReadableEntries = {} =>
         Returned = {"/"} \cup ({RouteOfPage[n] : n \in PageFiles} \ {""})
    /\ (PageFiles = {"Index.jsx", "About.jsx"} /\ ReadableEntries = {})
         => last.routes = <<"/", "/about">>

\* the project of the example, in src/pages, has been analysed
C18_Witness ==
  /\ pc = "returned"
  /\ DOMAIN files = {"src/pages/Index.jsx", "src/pages/About.jsx"}
  /\ last.routes = <<"/", "/about">>

\* the values of the path attributes in the entry files that can be read
AttrValues ==
  {AttrOrder[i] :
     i \in {j \in DOMAIN AttrOrder :
              \E f \in ReadableEntries :
                Includes(files[f].val,
                         "path=" \o QuoteOf(j) \o AttrOrder[j] \o QuoteOf(j))}}

\* the route each attribute value of the inputs stands for; "" for none
RouteOfAttr ==
  [v \in {AttrOrder[i] : i \in DOMAIN AttrOrder} |->
     CASE v = "/contact"  -> "/contact"
       [] v = "about"     -> "/about"
       [] v = "/"         -> "/"
       [] v = "/Admin"    -> "/Admin"
       [] v = "/about-us" -> "/about-us"
       [] OTHER           -> ""]

\* C19: every path attribute of a readable entry file, in double or single
\* quotes, adds its value as a route (with a leading "/") unless the value
\* holds '*' or ':', for which nothing is added; no returned route holds
\* '*' or ':'; a file with /contact, * and :id yields /contact.
C19_RoutesOfPathAttributes ==
  pc = "returned" =>
    /\ \A v \in AttrValues : RouteOfAttr[v] # "" => RouteOfAttr[v] \in Returned
    /\ \A r \in Returned : ~Includes(r, "*") /\ ~Includes(r, ":")
    /\ PageFiles = {} =>
         Returned = {"/"} \cup ({RouteOfAttr[v] : v \in AttrValues} \ {""})
    /\ AttrValues = {"/contact", "*", ":id"} => "/contact" \in Returned

\* the entry file of the example has been analysed
C19_Witness ==
  /\ pc = "returned"
  /\ AttrValues = {"/contact", "*", ":id"}
  /\ PageFiles = {}
  /\ last.routes = <<"/", "/contact">>

\* the place of every route of the inputs in ascending order
RankOf ==
  [r \in {"/", "/Admin", "/about", "/about-us", "/blog.post", "/contact"} |->
     CASE r = "/"          -> 1
       [] r = "/Admin"     -> 2
       [] r = "/about"     -> 3
       [] r = "/about-us"  -> 4
       [] r = "/blog.post" -> 5
       [] r = "/contact"   -> 6]

\* C20: for every tree, the ones with missing or unreadable parts included,
\* analyzeProject returns; the routes it returns hold "/" and are in
\* strictly ascending order, so no route is there twice.
C20_RoutesSortedWithRoot ==
  pc = "returned" =>
    /\ "/" \in Returned
    /\ Returned \subseteq DOMAIN RankOf
    /\ \A i, j \in DOMAIN last.routes :
         i < j => RankOf[last.routes[i]] < RankOf[last.routes[j]]
    /\ Cardinality(Returned) = Len(last.routes)
    /\ last.hasComponents \in BOOLEAN

\* page files and attributes that give the same routes more than once and
\* routes that differ in case: four routes are returned, in order
C20_Witness ==
  /\ pc = "returned"
  /\ PageFiles = {"About.jsx", "Home.tsx"}
  /\ AttrValues = {"about", "/", "/Admin"}
  /\ last.routes = <<"/", "/Admin", "/about">>
  /\ ~last.hasComponents

\* a tree whose pages directory is a regular file and whose entry file
\* cannot be read has been analysed
C20_FaultWitness ==
  /\ pc = "returned"
  /\ "src/pages" \in DOMAIN files
  /\ files["src/App.tsx"].kind = "denied"
  /\ last.routes = <<"/">>

====
